---- MODULE Spec2Model ----
(***************************************************************************)
(* MixMyRoutine: the ingredient knowledge graph (IngredientKnowledgeGraph  *)
(* of src/knowledge/ingredients.py), the catalog built by                  *)
(* create_skincare_knowledge_base, the queries made on it, the             *)
(* SkincareAdvisor of app/core/agent/advisor.py that answers questions     *)
(* from it, and the module-level caches of the API routers.                *)
(*                                                                         *)
(* Representation.                                                         *)
(*   - A Python str that the code folds, compares or looks up (ids, names, *)
(*     aliases, identifiers given by callers) is a sequence of one-char    *)
(*     strings, so that str.lower() is computed character by character.    *)
(*   - Free text that the code only copies (explanation, recommendation)   *)
(*     is an atomic string.                                                *)
(*   - Optional[T] is a sequence of length 0 (None) or 1 (the value); the  *)
(*     optional pH tuple is <<>> or <<min, max>>.                          *)
(*   - pH values are in tenths (5.5 is 55); every pH of the catalog is a   *)
(*     multiple of 0.5, which binary floating point represents exactly.    *)
(*   - dicts keep insertion order: the ingredient table is a sequence of   *)
(*     records with pairwise distinct ids.                                 *)
(*   - Ingredient slots that no modelled operation reads (description,     *)
(*     how_it_works, usage_tips, water_soluble, max_concentration) are     *)
(*     left out of the records.                                            *)
(*   - A Python set is a set; where the code iterates it (list(found),     *)
(*     matched_concerns) the order depends on the hash seed of the         *)
(*     process, so every order is explored.                                *)
(*   - A text built from parts (the advisor's context, its answer) is the  *)
(*     sequence of its parts; the empty text is <<>>.  Confidences are in  *)
(*     tenths.                                                             *)
(***************************************************************************)
EXTENDS Integers, Sequences, FiniteSets, TLC

VARIABLES
  ingredients,   \* self.ingredients: id-keyed table, in insertion order
  alias_index,   \* self._alias_index: folded alias/name/id -> id
  interactions,  \* self.interactions: list of Interaction
  graph,         \* self.graph: nx.Graph()
  phase,         \* "building" while create_skincare_knowledge_base runs
  built,         \* number of add_* calls made so far
  call,          \* the last operation: its name, arguments and result
  advisor,       \* Optional[SkincareAdvisor] made on this graph
  api            \* the module-level globals of the three API routers

vars ==
  <<ingredients, alias_index, interactions, graph, phase, built, call, advisor, api>>

kgvars == <<ingredients, alias_index, interactions, graph>>

appvars == <<advisor, api>>

(***************************************************************************)
(* Bounds of the exploration.                                              *)
(***************************************************************************)
MaxList == 3      \* longest identifier list given to check_compatibility
MaxAdds == 3      \* add_* calls explored on a graph built by hand
MaxConcerns == 2  \* longest concern list of a profile
MaxProducts == 3  \* longest product list given to build_routine

(***************************************************************************)
(* str.lower() / str.upper(), character by character.                      *)
(***************************************************************************)
LowerTable ==
  "A" :> "a" @@ "B" :> "b" @@ "C" :> "c" @@ "D" :> "d" @@ "E" :> "e" @@
  "F" :> "f" @@ "G" :> "g" @@ "H" :> "h" @@ "I" :> "i" @@ "J" :> "j" @@
  "K" :> "k" @@ "L" :> "l" @@ "M" :> "m" @@ "N" :> "n" @@ "O" :> "o" @@
  "P" :> "p" @@ "Q" :> "q" @@ "R" :> "r" @@ "S" :> "s" @@ "T" :> "t" @@
  "U" :> "u" @@ "V" :> "v" @@ "W" :> "w" @@ "X" :> "x" @@ "Y" :> "y" @@
  "Z" :> "z" @@ "Α" :> "α"

LowerChar(c) == IF c \in DOMAIN LowerTable THEN LowerTable[c] ELSE c

UpperChar(c) ==
  IF \E u \in DOMAIN LowerTable : LowerTable[u] = c
  THEN CHOOSE u \in DOMAIN LowerTable : LowerTable[u] = c
  ELSE c

\* variant: the string is used as given
LowerNoFold(s) == s

Lower(s) == [i \in 1..Len(s) |-> LowerChar(s[i])]

Upper(s) == [i \in 1..Len(s) |-> UpperChar(s[i])]

\* every other character upper-cased, the rest lower-cased
Alternating(s) ==
  [i \in 1..Len(s) |-> IF i % 2 = 1 THEN UpperChar(s[i]) ELSE LowerChar(s[i])]

(***************************************************************************)
(* The catalog: the arguments of the add_ingredient and add_interaction    *)
(* calls of create_skincare_knowledge_base, in call order.                 *)
(***************************************************************************)
KBIngredients ==
  <<
  [ id |-> <<"r","e","t","i","n","o","l">>,
      name |-> <<"R","e","t","i","n","o","l">>,
      category |-> "RETINOID",
      aliases |-> <<<<"v","i","t","a","m","i","n"," ","a">>, <<"r","e","t","i","n","y","l"," ","p","a","l","m","i","t","a","t","e">>, <<"r","e","t","i","n","a","l","d","e","h","y","d","e">>, <<"r","e","t","i","n","o","i","c"," ","a","c","i","d">>>>,
      optimal_ph |-> <<55, 65>>,
      time_of_day |-> "PM_ONLY", application_order |-> 6,
      addresses_concerns |-> <<"AGING", "ACNE", "TEXTURE", "HYPERPIGMENTATION", "PORES">>,
      caution_skin_types |-> <<"SENSITIVE">>,
      beginner_friendly |-> FALSE ],
  [ id |-> <<"g","l","y","c","o","l","i","c","_","a","c","i","d">>,
      name |-> <<"G","l","y","c","o","l","i","c"," ","A","c","i","d">>,
      category |-> "AHA",
      aliases |-> <<<<"g","l","y","c","o","l","i","c">>, <<"a","h","a">>>>,
      optimal_ph |-> <<30, 40>>,
      time_of_day |-> "PM_ONLY", application_order |-> 4,
      addresses_concerns |-> <<"TEXTURE", "DULLNESS", "HYPERPIGMENTATION", "AGING">>,
      caution_skin_types |-> <<"SENSITIVE", "DRY">>,
      beginner_friendly |-> TRUE ],
  [ id |-> <<"l","a","c","t","i","c","_","a","c","i","d">>,
      name |-> <<"L","a","c","t","i","c"," ","A","c","i","d">>,
      category |-> "AHA",
      aliases |-> <<<<"l","a","c","t","i","c">>>>,
      optimal_ph |-> <<35, 45>>,
      time_of_day |-> "PM_ONLY", application_order |-> 4,
      addresses_concerns |-> <<"TEXTURE", "DULLNESS", "DRYNESS", "HYPERPIGMENTATION">>,
      caution_skin_types |-> <<"SENSITIVE">>,
      beginner_friendly |-> TRUE ],
  [ id |-> <<"s","a","l","i","c","y","l","i","c","_","a","c","i","d">>,
      name |-> <<"S","a","l","i","c","y","l","i","c"," ","A","c","i","d">>,
      category |-> "BHA",
      aliases |-> <<<<"b","h","a">>, <<"s","a","l","i","c","y","l","i","c">>, <<"b","e","t","a"," ","h","y","d","r","o","x","y"," ","a","c","i","d">>>>,
      optimal_ph |-> <<30, 40>>,
      time_of_day |-> "AM_OR_PM", application_order |-> 4,
      addresses_concerns |-> <<"ACNE", "PORES", "OILINESS", "TEXTURE">>,
      caution_skin_types |-> <<"DRY">>,
      beginner_friendly |-> TRUE ],
  [ id |-> <<"v","i","t","a","m","i","n","_","c">>,
      name |-> <<"V","i","t","a","m","i","n"," ","C"," ","(","L","-","A","s","c","o","r","b","i","c"," ","A","c","i","d",")">>,
      category |-> "VITAMIN_C",
      aliases |-> <<<<"l","-","a","s","c","o","r","b","i","c"," ","a","c","i","d">>, <<"a","s","c","o","r","b","i","c"," ","a","c","i","d">>, <<"v","i","t"," ","c">>, <<"l","a","a">>>>,
      optimal_ph |-> <<25, 35>>,
      time_of_day |-> "AM_ONLY", application_order |-> 4,
      addresses_concerns |-> <<"HYPERPIGMENTATION", "DULLNESS", "AGING", "DARK_CIRCLES">>,
      caution_skin_types |-> <<"SENSITIVE">>,
      beginner_friendly |-> TRUE ],
  [ id |-> <<"v","i","t","a","m","i","n","_","c","_","d","e","r","i","v","a","t","i","v","e">>,
      name |-> <<"V","i","t","a","m","i","n"," ","C"," ","D","e","r","i","v","a","t","i","v","e","s">>,
      category |-> "VITAMIN_C",
      aliases |-> <<<<"s","o","d","i","u","m"," ","a","s","c","o","r","b","y","l"," ","p","h","o","s","p","h","a","t","e">>, <<"a","s","c","o","r","b","y","l"," ","g","l","u","c","o","s","i","d","e">>, <<"m","a","g","n","e","s","i","u","m"," ","a","s","c","o","r","b","y","l"," ","p","h","o","s","p","h","a","t","e">>, <<"a","s","c","o","r","b","y","l"," ","t","e","t","r","a","i","s","o","p","a","l","m","i","t","a","t","e">>>>,
      optimal_ph |-> <<50, 70>>,
      time_of_day |-> "AM_OR_PM", application_order |-> 4,
      addresses_concerns |-> <<"HYPERPIGMENTATION", "DULLNESS", "AGING">>,
      caution_skin_types |-> <<>>,
      beginner_friendly |-> TRUE ],
  [ id |-> <<"n","i","a","c","i","n","a","m","i","d","e">>,
      name |-> <<"N","i","a","c","i","n","a","m","i","d","e">>,
      category |-> "NIACINAMIDE",
      aliases |-> <<<<"v","i","t","a","m","i","n"," ","b","3">>, <<"n","i","c","o","t","i","n","a","m","i","d","e">>>>,
      optimal_ph |-> <<50, 70>>,
      time_of_day |-> "AM_AND_PM", application_order |-> 4,
      addresses_concerns |-> <<"PORES", "OILINESS", "REDNESS", "HYPERPIGMENTATION", "AGING">>,
      caution_skin_types |-> <<>>,
      beginner_friendly |-> TRUE ],
  [ id |-> <<"h","y","a","l","u","r","o","n","i","c","_","a","c","i","d">>,
      name |-> <<"H","y","a","l","u","r","o","n","i","c"," ","A","c","i","d">>,
      category |-> "HYALURONIC_ACID",
      aliases |-> <<<<"h","a">>, <<"s","o","d","i","u","m"," ","h","y","a","l","u","r","o","n","a","t","e">>, <<"h","y","a","l","u","r","o","n","a","n">>>>,
      optimal_ph |-> <<50, 70>>,
      time_of_day |-> "AM_AND_PM", application_order |-> 3,
      addresses_concerns |-> <<"DRYNESS", "AGING", "DULLNESS">>,
      caution_skin_types |-> <<>>,
      beginner_friendly |-> TRUE ],
  [ id |-> <<"b","e","n","z","o","y","l","_","p","e","r","o","x","i","d","e">>,
      name |-> <<"B","e","n","z","o","y","l"," ","P","e","r","o","x","i","d","e">>,
      category |-> "BENZOYL_PEROXIDE",
      aliases |-> <<<<"b","p">>, <<"b","p","o">>>>,
      optimal_ph |-> <<40, 60>>,
      time_of_day |-> "AM_OR_PM", application_order |-> 5,
      addresses_concerns |-> <<"ACNE">>,
      caution_skin_types |-> <<"SENSITIVE", "DRY">>,
      beginner_friendly |-> TRUE ],
  [ id |-> <<"a","z","e","l","a","i","c","_","a","c","i","d">>,
      name |-> <<"A","z","e","l","a","i","c"," ","A","c","i","d">>,
      category |-> "AZELAIC_ACID",
      aliases |-> <<<<"a","z","e","l","a","i","c">>>>,
      optimal_ph |-> <<45, 55>>,
      time_of_day |-> "AM_OR_PM", application_order |-> 5,
      addresses_concerns |-> <<"ACNE", "HYPERPIGMENTATION", "REDNESS", "TEXTURE">>,
      caution_skin_types |-> <<>>,
      beginner_friendly |-> TRUE ],
  [ id |-> <<"p","e","p","t","i","d","e","s">>,
      name |-> <<"P","e","p","t","i","d","e","s">>,
      category |-> "PEPTIDE",
      aliases |-> <<<<"m","a","t","r","i","x","y","l">>, <<"a","r","g","i","r","e","l","i","n","e">>, <<"c","o","p","p","e","r"," ","p","e","p","t","i","d","e","s">>, <<"p","a","l","m","i","t","o","y","l">>>>,
      optimal_ph |-> <<50, 70>>,
      time_of_day |-> "AM_AND_PM", application_order |-> 5,
      addresses_concerns |-> <<"AGING", "TEXTURE">>,
      caution_skin_types |-> <<>>,
      beginner_friendly |-> TRUE ],
  [ id |-> <<"c","e","r","a","m","i","d","e","s">>,
      name |-> <<"C","e","r","a","m","i","d","e","s">>,
      category |-> "CERAMIDE",
      aliases |-> <<<<"c","e","r","a","m","i","d","e"," ","n","p">>, <<"c","e","r","a","m","i","d","e"," ","a","p">>, <<"c","e","r","a","m","i","d","e"," ","e","o","p">>>>,
      optimal_ph |-> <<50, 70>>,
      time_of_day |-> "AM_AND_PM", application_order |-> 7,
      addresses_concerns |-> <<"DRYNESS", "SENSITIVITY", "AGING">>,
      caution_skin_types |-> <<>>,
      beginner_friendly |-> TRUE ],
  [ id |-> <<"s","p","f">>,
      name |-> <<"S","u","n","s","c","r","e","e","n"," ","(","S","P","F",")">>,
      category |-> "SPF",
      aliases |-> <<<<"s","u","n","s","c","r","e","e","n">>, <<"s","u","n"," ","p","r","o","t","e","c","t","i","o","n">>, <<"s","u","n","b","l","o","c","k">>>>,
      optimal_ph |-> <<>>,
      time_of_day |-> "AM_ONLY", application_order |-> 10,
      addresses_concerns |-> <<"AGING", "HYPERPIGMENTATION">>,
      caution_skin_types |-> <<>>,
      beginner_friendly |-> TRUE ],
  [ id |-> <<"s","q","u","a","l","a","n","e">>,
      name |-> <<"S","q","u","a","l","a","n","e">>,
      category |-> "OIL",
      aliases |-> <<<<"s","q","u","a","l","e","n","e">>, <<"o","l","i","v","e"," ","s","q","u","a","l","a","n","e">>, <<"s","u","g","a","r","c","a","n","e"," ","s","q","u","a","l","a","n","e">>>>,
      optimal_ph |-> <<>>,
      time_of_day |-> "AM_AND_PM", application_order |-> 8,
      addresses_concerns |-> <<"DRYNESS", "AGING", "SENSITIVITY">>,
      caution_skin_types |-> <<>>,
      beginner_friendly |-> TRUE ],
  [ id |-> <<"t","r","a","n","e","x","a","m","i","c","_","a","c","i","d">>,
      name |-> <<"T","r","a","n","e","x","a","m","i","c"," ","A","c","i","d">>,
      category |-> "OTHER",
      aliases |-> <<<<"t","x","a">>, <<"t","r","a","n","e","x","a","m","i","c">>>>,
      optimal_ph |-> <<45, 65>>,
      time_of_day |-> "AM_AND_PM", application_order |-> 4,
      addresses_concerns |-> <<"HYPERPIGMENTATION", "REDNESS", "DULLNESS">>,
      caution_skin_types |-> <<>>,
      beginner_friendly |-> TRUE ],
  [ id |-> <<"a","l","p","h","a","_","a","r","b","u","t","i","n">>,
      name |-> <<"A","l","p","h","a"," ","A","r","b","u","t","i","n">>,
      category |-> "OTHER",
      aliases |-> <<<<"a","r","b","u","t","i","n">>, <<"α","-","a","r","b","u","t","i","n">>>>,
      optimal_ph |-> <<35, 65>>,
      time_of_day |-> "AM_AND_PM", application_order |-> 4,
      addresses_concerns |-> <<"HYPERPIGMENTATION", "DULLNESS">>,
      caution_skin_types |-> <<>>,
      beginner_friendly |-> TRUE ],
  [ id |-> <<"c","e","n","t","e","l","l","a">>,
      name |-> <<"C","e","n","t","e","l","l","a"," ","A","s","i","a","t","i","c","a">>,
      category |-> "OTHER",
      aliases |-> <<<<"c","i","c","a">>, <<"t","i","g","e","r"," ","g","r","a","s","s">>, <<"g","o","t","u"," ","k","o","l","a">>, <<"m","a","d","e","c","a","s","s","o","s","i","d","e">>, <<"a","s","i","a","t","i","c","o","s","i","d","e">>>>,
      optimal_ph |-> <<>>,
      time_of_day |-> "AM_AND_PM", application_order |-> 5,
      addresses_concerns |-> <<"SENSITIVITY", "REDNESS", "ACNE", "AGING">>,
      caution_skin_types |-> <<>>,
      beginner_friendly |-> TRUE ],
  [ id |-> <<"b","a","k","u","c","h","i","o","l">>,
      name |-> <<"B","a","k","u","c","h","i","o","l">>,
      category |-> "OTHER",
      aliases |-> <<<<"n","a","t","u","r","a","l"," ","r","e","t","i","n","o","l"," ","a","l","t","e","r","n","a","t","i","v","e">>>>,
      optimal_ph |-> <<>>,
      time_of_day |-> "AM_AND_PM", application_order |-> 6,
      addresses_concerns |-> <<"AGING", "TEXTURE", "HYPERPIGMENTATION">>,
      caution_skin_types |-> <<>>,
      beginner_friendly |-> TRUE ],
  [ id |-> <<"t","e","a","_","t","r","e","e">>,
      name |-> <<"T","e","a"," ","T","r","e","e"," ","O","i","l">>,
      category |-> "OIL",
      aliases |-> <<<<"m","e","l","a","l","e","u","c","a">>, <<"t","e","a"," ","t","r","e","e">>, <<"m","e","l","a","l","e","u","c","a"," ","a","l","t","e","r","n","i","f","o","l","i","a">>>>,
      optimal_ph |-> <<>>,
      time_of_day |-> "PM_ONLY", application_order |-> 5,
      addresses_concerns |-> <<"ACNE", "OILINESS">>,
      caution_skin_types |-> <<"SENSITIVE", "DRY">>,
      beginner_friendly |-> TRUE ],
  [ id |-> <<"k","o","j","i","c","_","a","c","i","d">>,
      name |-> <<"K","o","j","i","c"," ","A","c","i","d">>,
      category |-> "OTHER",
      aliases |-> <<<<"k","o","j","i","c">>>>,
      optimal_ph |-> <<45, 55>>,
      time_of_day |-> "PM_ONLY", application_order |-> 4,
      addresses_concerns |-> <<"HYPERPIGMENTATION", "DULLNESS">>,
      caution_skin_types |-> <<"SENSITIVE">>,
      beginner_friendly |-> FALSE ],
  [ id |-> <<"m","a","n","d","e","l","i","c","_","a","c","i","d">>,
      name |-> <<"M","a","n","d","e","l","i","c"," ","A","c","i","d">>,
      category |-> "AHA",
      aliases |-> <<<<"m","a","n","d","e","l","i","c">>>>,
      optimal_ph |-> <<30, 40>>,
      time_of_day |-> "PM_ONLY", application_order |-> 4,
      addresses_concerns |-> <<"TEXTURE", "ACNE", "HYPERPIGMENTATION", "AGING">>,
      caution_skin_types |-> <<>>,
      beginner_friendly |-> TRUE ],
  [ id |-> <<"p","h","a">>,
      name |-> <<"P","H","A","s"," ","(","P","o","l","y","h","y","d","r","o","x","y"," ","A","c","i","d","s",")">>,
      category |-> "AHA",
      aliases |-> <<<<"g","l","u","c","o","n","o","l","a","c","t","o","n","e">>, <<"l","a","c","t","o","b","i","o","n","i","c"," ","a","c","i","d">>, <<"p","o","l","y","h","y","d","r","o","x","y"," ","a","c","i","d">>>>,
      optimal_ph |-> <<35, 45>>,
      time_of_day |-> "AM_OR_PM", application_order |-> 4,
      addresses_concerns |-> <<"TEXTURE", "DRYNESS", "SENSITIVITY", "AGING">>,
      caution_skin_types |-> <<>>,
      beginner_friendly |-> TRUE ],
  [ id |-> <<"z","i","n","c">>,
      name |-> <<"Z","i","n","c">>,
      category |-> "OTHER",
      aliases |-> <<<<"z","i","n","c"," ","o","x","i","d","e">>, <<"z","i","n","c"," ","p","c","a">>, <<"z","i","n","c"," ","s","u","l","f","a","t","e">>, <<"z","i","n","c"," ","g","l","u","c","o","n","a","t","e">>>>,
      optimal_ph |-> <<>>,
      time_of_day |-> "AM_AND_PM", application_order |-> 5,
      addresses_concerns |-> <<"ACNE", "OILINESS", "REDNESS", "SENSITIVITY">>,
      caution_skin_types |-> <<"DRY">>,
      beginner_friendly |-> TRUE ],
  [ id |-> <<"r","o","s","e","h","i","p","_","o","i","l">>,
      name |-> <<"R","o","s","e","h","i","p"," ","O","i","l">>,
      category |-> "OIL",
      aliases |-> <<<<"r","o","s","e","h","i","p"," ","s","e","e","d"," ","o","i","l">>, <<"r","o","s","a"," ","c","a","n","i","n","a">>>>,
      optimal_ph |-> <<>>,
      time_of_day |-> "PM_ONLY", application_order |-> 9,
      addresses_concerns |-> <<"AGING", "HYPERPIGMENTATION", "DRYNESS", "TEXTURE">>,
      caution_skin_types |-> <<"OILY">>,
      beginner_friendly |-> TRUE ],
  [ id |-> <<"v","i","t","a","m","i","n","_","e">>,
      name |-> <<"V","i","t","a","m","i","n"," ","E">>,
      category |-> "OTHER",
      aliases |-> <<<<"t","o","c","o","p","h","e","r","o","l">>, <<"t","o","c","o","p","h","e","r","y","l"," ","a","c","e","t","a","t","e">>, <<"a","l","p","h","a","-","t","o","c","o","p","h","e","r","o","l">>>>,
      optimal_ph |-> <<>>,
      time_of_day |-> "AM_AND_PM", application_order |-> 6,
      addresses_concerns |-> <<"DRYNESS", "AGING", "SENSITIVITY">>,
      caution_skin_types |-> <<"OILY">>,
      beginner_friendly |-> TRUE ],
  [ id |-> <<"a","l","l","a","n","t","o","i","n">>,
      name |-> <<"A","l","l","a","n","t","o","i","n">>,
      category |-> "OTHER",
      aliases |-> <<>>,
      optimal_ph |-> <<>>,
      time_of_day |-> "AM_AND_PM", application_order |-> 5,
      addresses_concerns |-> <<"SENSITIVITY", "DRYNESS", "REDNESS", "TEXTURE">>,
      caution_skin_types |-> <<>>,
      beginner_friendly |-> TRUE ]
  >>

KBInteractions ==
  <<
  [ ingredient_a |-> <<"t","e","a","_","t","r","e","e">>,
      ingredient_b |-> <<"b","e","n","z","o","y","l","_","p","e","r","o","x","i","d","e">>,
      interaction_type |-> "CAUTION", severity |-> 6,
      explanation |-> "Both are antibacterial and drying. Using together may over-dry and irritate skin.",
      recommendation |-> "Choose one or the other for acne treatment, not both.",
      wait_minutes |-> <<>> ],
  [ ingredient_a |-> <<"t","e","a","_","t","r","e","e">>,
      ingredient_b |-> <<"r","e","t","i","n","o","l">>,
      interaction_type |-> "CAUTION", severity |-> 5,
      explanation |-> "Both can be irritating. Tea tree's essential oils may increase sensitivity.",
      recommendation |-> "Use on alternating nights if combining.",
      wait_minutes |-> <<>> ],
  [ ingredient_a |-> <<"k","o","j","i","c","_","a","c","i","d">>,
      ingredient_b |-> <<"v","i","t","a","m","i","n","_","c">>,
      interaction_type |-> "SYNERGIZES", severity |-> 1,
      explanation |-> "Both target pigmentation through different mechanisms. Enhanced brightening effect.",
      recommendation |-> "Powerful combination for stubborn dark spots.",
      wait_minutes |-> <<>> ],
  [ ingredient_a |-> <<"k","o","j","i","c","_","a","c","i","d">>,
      ingredient_b |-> <<"r","e","t","i","n","o","l">>,
      interaction_type |-> "CAUTION", severity |-> 6,
      explanation |-> "Both can be irritating. Combining may compromise skin barrier.",
      recommendation |-> "Use on alternate nights, not together.",
      wait_minutes |-> <<>> ],
  [ ingredient_a |-> <<"m","a","n","d","e","l","i","c","_","a","c","i","d">>,
      ingredient_b |-> <<"r","e","t","i","n","o","l">>,
      interaction_type |-> "CAUTION", severity |-> 5,
      explanation |-> "Both exfoliate but mandelic is gentler than other AHAs with retinol.",
      recommendation |-> "More tolerable than glycolic + retinol, but still use caution. Alternate nights recommended.",
      wait_minutes |-> <<>> ],
  [ ingredient_a |-> <<"m","a","n","d","e","l","i","c","_","a","c","i","d">>,
      ingredient_b |-> <<"n","i","a","c","i","n","a","m","i","d","e">>,
      interaction_type |-> "SYNERGIZES", severity |-> 1,
      explanation |-> "Niacinamide soothes while mandelic exfoliates gently.",
      recommendation |-> "Great combination for acne-prone sensitive skin.",
      wait_minutes |-> <<>> ],
  [ ingredient_a |-> <<"p","h","a">>,
      ingredient_b |-> <<"r","e","t","i","n","o","l">>,
      interaction_type |-> "SYNERGIZES", severity |-> 2,
      explanation |-> "PHAs are gentle enough to use with retinol and provide hydration.",
      recommendation |-> "Safest hydroxy acid to combine with retinol.",
      wait_minutes |-> <<>> ],
  [ ingredient_a |-> <<"p","h","a">>,
      ingredient_b |-> <<"v","i","t","a","m","i","n","_","c">>,
      interaction_type |-> "SYNERGIZES", severity |-> 1,
      explanation |-> "PHAs work at compatible pH and won't destabilize vitamin C.",
      recommendation |-> "Can be layered together for brightening and exfoliation.",
      wait_minutes |-> <<>> ],
  [ ingredient_a |-> <<"v","i","t","a","m","i","n","_","e">>,
      ingredient_b |-> <<"v","i","t","a","m","i","n","_","c">>,
      interaction_type |-> "SYNERGIZES", severity |-> 1,
      explanation |-> "Vitamin E stabilizes vitamin C and enhances its antioxidant effects by 4x.",
      recommendation |-> "Look for products combining both, or layer them.",
      wait_minutes |-> <<>> ],
  [ ingredient_a |-> <<"v","i","t","a","m","i","n","_","e">>,
      ingredient_b |-> <<"r","e","t","i","n","o","l">>,
      interaction_type |-> "SYNERGIZES", severity |-> 1,
      explanation |-> "Vitamin E's antioxidant properties protect skin while retinol works.",
      recommendation |-> "Apply vitamin E product after retinol to boost moisture and protection.",
      wait_minutes |-> <<>> ],
  [ ingredient_a |-> <<"r","o","s","e","h","i","p","_","o","i","l">>,
      ingredient_b |-> <<"r","e","t","i","n","o","l">>,
      interaction_type |-> "SYNERGIZES", severity |-> 1,
      explanation |-> "Rosehip contains natural vitamin A that complements retinol. Also moisturizes.",
      recommendation |-> "Apply rosehip oil after retinol to buffer irritation.",
      wait_minutes |-> <<>> ],
  [ ingredient_a |-> <<"z","i","n","c">>,
      ingredient_b |-> <<"n","i","a","c","i","n","a","m","i","d","e">>,
      interaction_type |-> "SYNERGIZES", severity |-> 1,
      explanation |-> "Both control oil and reduce inflammation. Common pairing in acne products.",
      recommendation |-> "Excellent combination for oily, acne-prone skin.",
      wait_minutes |-> <<>> ],
  [ ingredient_a |-> <<"a","l","l","a","n","t","o","i","n">>,
      ingredient_b |-> <<"r","e","t","i","n","o","l">>,
      interaction_type |-> "SYNERGIZES", severity |-> 1,
      explanation |-> "Allantoin soothes irritation from retinol while promoting healing.",
      recommendation |-> "Great supporting ingredient in retinol formulations.",
      wait_minutes |-> <<>> ],
  [ ingredient_a |-> <<"s","q","u","a","l","a","n","e">>,
      ingredient_b |-> <<"r","e","t","i","n","o","l">>,
      interaction_type |-> "SYNERGIZES", severity |-> 1,
      explanation |-> "Squalane buffers retinol's irritation while helping it penetrate. Great for sensitive skin using retinoids.",
      recommendation |-> "Apply retinol first, then seal with squalane.",
      wait_minutes |-> <<>> ],
  [ ingredient_a |-> <<"s","q","u","a","l","a","n","e">>,
      ingredient_b |-> <<"h","y","a","l","u","r","o","n","i","c","_","a","c","i","d">>,
      interaction_type |-> "SYNERGIZES", severity |-> 1,
      explanation |-> "HA pulls in moisture, squalane locks it in. Perfect hydration combo.",
      recommendation |-> "Apply HA to damp skin, follow with squalane.",
      wait_minutes |-> <<>> ],
  [ ingredient_a |-> <<"t","r","a","n","e","x","a","m","i","c","_","a","c","i","d">>,
      ingredient_b |-> <<"v","i","t","a","m","i","n","_","c">>,
      interaction_type |-> "SYNERGIZES", severity |-> 1,
      explanation |-> "Both target pigmentation through different mechanisms. Enhanced brightening.",
      recommendation |-> "Excellent combination for hyperpigmentation. Layer vitamin C first.",
      wait_minutes |-> <<>> ],
  [ ingredient_a |-> <<"t","r","a","n","e","x","a","m","i","c","_","a","c","i","d">>,
      ingredient_b |-> <<"n","i","a","c","i","n","a","m","i","d","e">>,
      interaction_type |-> "SYNERGIZES", severity |-> 1,
      explanation |-> "Niacinamide inhibits melanosome transfer while TXA blocks melanin production.",
      recommendation |-> "Powerful brightening duo. Can be used together daily.",
      wait_minutes |-> <<>> ],
  [ ingredient_a |-> <<"a","l","p","h","a","_","a","r","b","u","t","i","n">>,
      ingredient_b |-> <<"v","i","t","a","m","i","n","_","c">>,
      interaction_type |-> "SYNERGIZES", severity |-> 1,
      explanation |-> "Target pigmentation via different pathways. Arbutin is gentle enough to pair with actives.",
      recommendation |-> "Use together in AM routine for maximum brightening.",
      wait_minutes |-> <<>> ],
  [ ingredient_a |-> <<"c","e","n","t","e","l","l","a">>,
      ingredient_b |-> <<"r","e","t","i","n","o","l">>,
      interaction_type |-> "SYNERGIZES", severity |-> 1,
      explanation |-> "Centella soothes irritation from retinol while promoting healing.",
      recommendation |-> "Apply centella product after retinol to buffer irritation.",
      wait_minutes |-> <<>> ],
  [ ingredient_a |-> <<"b","a","k","u","c","h","i","o","l">>,
      ingredient_b |-> <<"r","e","t","i","n","o","l">>,
      interaction_type |-> "SYNERGIZES", severity |-> 1,
      explanation |-> "Studies show combining them enhances anti-aging effects beyond either alone.",
      recommendation |-> "Can be layered together for experienced users, or use bakuchiol in AM and retinol in PM.",
      wait_minutes |-> <<>> ],
  [ ingredient_a |-> <<"b","a","k","u","c","h","i","o","l">>,
      ingredient_b |-> <<"v","i","t","a","m","i","n","_","c">>,
      interaction_type |-> "SYNERGIZES", severity |-> 1,
      explanation |-> "Unlike retinol, bakuchiol is stable with vitamin C and doesn't cause pH conflicts.",
      recommendation |-> "Great daytime anti-aging combination.",
      wait_minutes |-> <<>> ],
  [ ingredient_a |-> <<"r","e","t","i","n","o","l">>,
      ingredient_b |-> <<"g","l","y","c","o","l","i","c","_","a","c","i","d">>,
      interaction_type |-> "CONFLICTS", severity |-> 8,
      explanation |-> "Both increase cell turnover and can severely irritate skin when combined. Risk of redness, peeling, and damaged skin barrier.",
      recommendation |-> "Use on alternate nights. Example: retinol Mon/Wed/Fri, glycolic Tue/Sat.",
      wait_minutes |-> <<>> ],
  [ ingredient_a |-> <<"r","e","t","i","n","o","l">>,
      ingredient_b |-> <<"l","a","c","t","i","c","_","a","c","i","d">>,
      interaction_type |-> "CONFLICTS", severity |-> 7,
      explanation |-> "Both exfoliating agents that can cause irritation when combined.",
      recommendation |-> "Use on alternate nights.",
      wait_minutes |-> <<>> ],
  [ ingredient_a |-> <<"r","e","t","i","n","o","l">>,
      ingredient_b |-> <<"s","a","l","i","c","y","l","i","c","_","a","c","i","d">>,
      interaction_type |-> "CAUTION", severity |-> 5,
      explanation |-> "Can be used together by experienced users, but may cause dryness and irritation.",
      recommendation |-> "If combining, use salicylic in AM and retinol in PM, or start very slowly.",
      wait_minutes |-> <<>> ],
  [ ingredient_a |-> <<"r","e","t","i","n","o","l">>,
      ingredient_b |-> <<"v","i","t","a","m","i","n","_","c">>,
      interaction_type |-> "REQUIRES_WAITING", severity |-> 4,
      explanation |-> "Different optimal pH levels. Vitamin C needs acidic environment (pH 3), retinol works best at pH 5.5-6.",
      recommendation |-> "Use vitamin C in AM, retinol in PM. Or wait 30 minutes between applications.",
      wait_minutes |-> <<30>> ],
  [ ingredient_a |-> <<"r","e","t","i","n","o","l">>,
      ingredient_b |-> <<"b","e","n","z","o","y","l","_","p","e","r","o","x","i","d","e">>,
      interaction_type |-> "DEACTIVATES", severity |-> 9,
      explanation |-> "Benzoyl peroxide oxidizes and deactivates retinol, making both less effective.",
      recommendation |-> "Never use together. Use BP in AM, retinol in PM, or on alternate days.",
      wait_minutes |-> <<>> ],
  [ ingredient_a |-> <<"r","e","t","i","n","o","l">>,
      ingredient_b |-> <<"n","i","a","c","i","n","a","m","i","d","e">>,
      interaction_type |-> "SYNERGIZES", severity |-> 1,
      explanation |-> "Niacinamide helps reduce the irritation from retinol while both work on similar concerns.",
      recommendation |-> "Great combination! Apply niacinamide first, then retinol.",
      wait_minutes |-> <<>> ],
  [ ingredient_a |-> <<"r","e","t","i","n","o","l">>,
      ingredient_b |-> <<"h","y","a","l","u","r","o","n","i","c","_","a","c","i","d">>,
      interaction_type |-> "SYNERGIZES", severity |-> 1,
      explanation |-> "Hyaluronic acid provides hydration that counteracts retinol's drying effects.",
      recommendation |-> "Apply hyaluronic acid to damp skin, follow with retinol.",
      wait_minutes |-> <<>> ],
  [ ingredient_a |-> <<"v","i","t","a","m","i","n","_","c">>,
      ingredient_b |-> <<"n","i","a","c","i","n","a","m","i","d","e">>,
      interaction_type |-> "CAUTION", severity |-> 3,
      explanation |-> "Old studies suggested they cancel out, but modern research shows this is largely a myth. However, high concentrations of both may cause flushing.",
      recommendation |-> "Can use together. If you experience flushing, apply vitamin C in AM and niacinamide in PM.",
      wait_minutes |-> <<>> ],
  [ ingredient_a |-> <<"v","i","t","a","m","i","n","_","c">>,
      ingredient_b |-> <<"s","p","f">>,
      interaction_type |-> "SYNERGIZES", severity |-> 1,
      explanation |-> "Vitamin C boosts sunscreen effectiveness by neutralizing free radicals that UV rays generate.",
      recommendation |-> "Perfect morning combination! Vitamin C first, then sunscreen.",
      wait_minutes |-> <<>> ],
  [ ingredient_a |-> <<"v","i","t","a","m","i","n","_","c">>,
      ingredient_b |-> <<"v","i","t","a","m","i","n","_","c","_","d","e","r","i","v","a","t","i","v","e">>,
      interaction_type |-> "CAUTION", severity |-> 2,
      explanation |-> "No need to use both - they serve the same purpose.",
      recommendation |-> "Pick one. L-ascorbic acid is more potent; derivatives are gentler.",
      wait_minutes |-> <<>> ],
  [ ingredient_a |-> <<"g","l","y","c","o","l","i","c","_","a","c","i","d">>,
      ingredient_b |-> <<"s","a","l","i","c","y","l","i","c","_","a","c","i","d">>,
      interaction_type |-> "CAUTION", severity |-> 6,
      explanation |-> "Both are exfoliants. Using together increases irritation risk significantly.",
      recommendation |-> "Use on different days, or choose one based on your primary concern (texture vs. acne).",
      wait_minutes |-> <<>> ],
  [ ingredient_a |-> <<"g","l","y","c","o","l","i","c","_","a","c","i","d">>,
      ingredient_b |-> <<"l","a","c","t","i","c","_","a","c","i","d">>,
      interaction_type |-> "CAUTION", severity |-> 5,
      explanation |-> "Both are AHAs - using together is usually unnecessary and increases irritation.",
      recommendation |-> "Choose one. Glycolic for deeper exfoliation, lactic for gentler + hydration.",
      wait_minutes |-> <<>> ],
  [ ingredient_a |-> <<"b","e","n","z","o","y","l","_","p","e","r","o","x","i","d","e">>,
      ingredient_b |-> <<"v","i","t","a","m","i","n","_","c">>,
      interaction_type |-> "DEACTIVATES", severity |-> 8,
      explanation |-> "Benzoyl peroxide oxidizes vitamin C, rendering both less effective.",
      recommendation |-> "Use at different times of day. Vitamin C in AM, BP in PM.",
      wait_minutes |-> <<>> ],
  [ ingredient_a |-> <<"p","e","p","t","i","d","e","s">>,
      ingredient_b |-> <<"g","l","y","c","o","l","i","c","_","a","c","i","d">>,
      interaction_type |-> "CAUTION", severity |-> 5,
      explanation |-> "Strong acids can break down peptide chains, reducing their effectiveness.",
      recommendation |-> "Apply acid first, wait 20-30 minutes for pH to normalize, then apply peptides.",
      wait_minutes |-> <<>> ],
  [ ingredient_a |-> <<"p","e","p","t","i","d","e","s">>,
      ingredient_b |-> <<"v","i","t","a","m","i","n","_","c">>,
      interaction_type |-> "CAUTION", severity |-> 4,
      explanation |-> "The acidic pH of L-ascorbic acid can destabilize some peptides.",
      recommendation |-> "Use at different times of day, or use vitamin C derivatives instead.",
      wait_minutes |-> <<>> ],
  [ ingredient_a |-> <<"h","y","a","l","u","r","o","n","i","c","_","a","c","i","d">>,
      ingredient_b |-> <<"n","i","a","c","i","n","a","m","i","d","e">>,
      interaction_type |-> "SYNERGIZES", severity |-> 1,
      explanation |-> "Both are hydrating and work at similar pH levels. Niacinamide strengthens barrier while HA hydrates.",
      recommendation |-> "Excellent combination for all skin types.",
      wait_minutes |-> <<>> ],
  [ ingredient_a |-> <<"h","y","a","l","u","r","o","n","i","c","_","a","c","i","d">>,
      ingredient_b |-> <<"c","e","r","a","m","i","d","e","s">>,
      interaction_type |-> "SYNERGIZES", severity |-> 1,
      explanation |-> "HA pulls in moisture, ceramides lock it in. Perfect moisture-barrier support.",
      recommendation |-> "Apply HA to damp skin, follow with ceramide moisturizer.",
      wait_minutes |-> <<>> ],
  [ ingredient_a |-> <<"n","i","a","c","i","n","a","m","i","d","e">>,
      ingredient_b |-> <<"s","a","l","i","c","y","l","i","c","_","a","c","i","d">>,
      interaction_type |-> "SYNERGIZES", severity |-> 1,
      explanation |-> "Niacinamide calms and regulates oil while BHA clears pores. Great for acne.",
      recommendation |-> "Can be layered or found together in products.",
      wait_minutes |-> <<>> ],
  [ ingredient_a |-> <<"a","z","e","l","a","i","c","_","a","c","i","d">>,
      ingredient_b |-> <<"n","i","a","c","i","n","a","m","i","d","e">>,
      interaction_type |-> "SYNERGIZES", severity |-> 1,
      explanation |-> "Both target hyperpigmentation and work at compatible pH levels.",
      recommendation |-> "Excellent combination for brightening and evening skin tone.",
      wait_minutes |-> <<>> ]
  >>

(***************************************************************************)
(* Enum values (InteractionType.value).                                    *)
(***************************************************************************)
InteractionTypeValue ==
  [ CONFLICTS |-> "conflicts", CAUTION |-> "caution",
    SYNERGIZES |-> "synergizes", REQUIRES_WAITING |-> "wait",
    DEACTIVATES |-> "deactivates", INCREASES_SENSITIVITY |-> "sensitizing" ]

Range(s) == {s[i] : i \in 1..Len(s)}

\* a local name bound to a value: F applied to the value of x
With(x, F(_)) == CHOOSE r \in {F(v) : v \in {x}} : TRUE

(***************************************************************************)
(* dict operations on the ingredient table and the alias index.            *)
(***************************************************************************)
HasIngredient(table, id) == \E i \in 1..Len(table) : table[i].id = id

IngredientAt(table, id) ==
  table[CHOOSE i \in 1..Len(table) : table[i].id = id]

\* self.ingredients[ingredient.id] = ingredient
TableSet(table, ingredient) ==
  IF HasIngredient(table, ingredient.id)
  THEN [i \in 1..Len(table) |->
          IF table[i].id = ingredient.id THEN ingredient ELSE table[i]]
  ELSE Append(table, ingredient)

\* index[key] = value
IndexSet(index, key, value) ==
  [k \in DOMAIN index \cup {key} |-> IF k = key THEN value ELSE index[k]]

\* index.get(key, default)
IndexGet(index, key, default) ==
  IF key \in DOMAIN index THEN index[key] ELSE default

(***************************************************************************)
(* nx.Graph: node attributes, adjacency in insertion order, and one data   *)
(* dict per undirected edge (shared by both directions).                   *)
(***************************************************************************)
EmptyGraph == [node |-> <<>>, adj |-> <<>>, edge |-> <<>>]

\* Graph.add_node(n, ingredient=...)
nx_add_node(g, n, attr) ==
  [ node |-> IndexSet(g.node, n, attr),
    adj  |-> IF n \in DOMAIN g.adj THEN g.adj ELSE IndexSet(g.adj, n, <<>>),
    edge |-> g.edge ]

nx_link(adj, u, v) ==
  IF v \in Range(adj[u]) THEN adj ELSE [adj EXCEPT ![u] = Append(@, v)]

\* variant: the edge is linked from u to v only
nx_add_edge_one_way(g, u, v, data) ==
  LET node1 == IF u \in DOMAIN g.node THEN g.node ELSE IndexSet(g.node, u, <<>>)
      node2 == IF v \in DOMAIN node1 THEN node1 ELSE IndexSet(node1, v, <<>>)
      adj1  == IF u \in DOMAIN g.adj THEN g.adj ELSE IndexSet(g.adj, u, <<>>)
      adj2  == IF v \in DOMAIN adj1 THEN adj1 ELSE IndexSet(adj1, v, <<>>)
  IN  [ node |-> node2,
        adj  |-> nx_link(adj2, u, v),
        edge |-> IndexSet(g.edge, {u, v}, data) ]

\* Graph.add_edge(u, v, **data): creates missing nodes, links both
\* directions and updates the data dict of the edge
nx_add_edge(g, u, v, data) ==
  LET node1 == IF u \in DOMAIN g.node THEN g.node ELSE IndexSet(g.node, u, <<>>)
      node2 == IF v \in DOMAIN node1 THEN node1 ELSE IndexSet(node1, v, <<>>)
      adj1  == IF u \in DOMAIN g.adj THEN g.adj ELSE IndexSet(g.adj, u, <<>>)
      adj2  == IF v \in DOMAIN adj1 THEN adj1 ELSE IndexSet(adj1, v, <<>>)
  IN  [ node |-> node2,
        adj  |-> nx_link(nx_link(adj2, u, v), v, u),
        edge |-> IndexSet(g.edge, {u, v}, data) ]

\* Graph.has_edge(u, v)
nx_has_edge(g, u, v) == u \in DOMAIN g.adj /\ v \in Range(g.adj[u])

\* Graph[u][v]
nx_edge_data(g, u, v) == g.edge[{u, v}]

(***************************************************************************)
(* IngredientKnowledgeGraph: construction                                  *)
(***************************************************************************)
RECURSIVE IndexAliases(_, _, _)
\* for alias in ingredient.aliases: self._alias_index[alias.lower()] = id
IndexAliases(index, aliases, id) ==
  IF aliases = <<>> THEN index
  ELSE IndexAliases(IndexSet(index, Lower(Head(aliases)), id), Tail(aliases), id)

add_ingredient(ingredient) ==
  /\ ingredients' = TableSet(ingredients, ingredient)
  /\ graph' = nx_add_node(graph, ingredient.id, <<ingredient>>)
  /\ alias_index' =
       IndexSet(
         IndexSet(IndexAliases(alias_index, ingredient.aliases, ingredient.id),
                  Lower(ingredient.name), ingredient.id),
         Lower(ingredient.id), ingredient.id)
  /\ UNCHANGED interactions

add_interaction(interaction) ==
  /\ interactions' = Append(interactions, interaction)
  /\ graph' = nx_add_edge(graph, interaction.ingredient_a, interaction.ingredient_b,
                          [ interaction |-> interaction,
                            type |-> InteractionTypeValue[interaction.interaction_type] ])
  /\ UNCHANGED <<ingredients, alias_index>>

\* pat in text
Contains(text, pat) ==
  \E i \in 1..(Len(text) - Len(pat) + 1) : SubSeq(text, i, i + Len(pat) - 1) = pat

\* the first index at which pat occurs in text (pat occurs in text)
Find(text, pat) ==
  CHOOSE i \in 1..(Len(text) - Len(pat) + 1) :
    /\ SubSeq(text, i, i + Len(pat) - 1) = pat
    /\ \A j \in 1..(i - 1) : SubSeq(text, j, j + Len(pat) - 1) # pat

RECURSIVE Replace(_, _, _)
\* text.replace(old, new) for a non-empty old: every occurrence, found from
\* the left, without overlaps
Replace(text, old, new) ==
  IF ~Contains(text, old) THEN text
  ELSE LET i == Find(text, old)
       IN  SubSeq(text, 1, i - 1) \o new
             \o Replace(SubSeq(text, i + Len(old), Len(text)), old, new)

(***************************************************************************)
(* IngredientKnowledgeGraph: lookups                                       *)
(***************************************************************************)
\* get_ingredient: exact id first, then the folded alias index.  The result
\* of _alias_index.get() is only tested for truth, so None and the empty
\* string are both the empty sequence here.
get_ingredient(identifier) ==
  IF HasIngredient(ingredients, identifier)
  THEN <<IngredientAt(ingredients, identifier)>>
  ELSE LET ingredient_id == IndexGet(alias_index, Lower(identifier), <<>>)
       IN  IF ingredient_id # <<>> /\ HasIngredient(ingredients, ingredient_id)
           THEN <<IngredientAt(ingredients, ingredient_id)>>
           ELSE <<>>

RECURSIVE FindMatches(_, _)
\* the loop of find_ingredient: an ingredient is appended once, when the
\* term occurs in its lower-cased name or in one of its lower-cased aliases
FindMatches(table, search_lower) ==
  IF table = <<>> THEN <<>>
  ELSE LET ingredient == Head(table)
       IN  (IF \/ Contains(Lower(ingredient.name), search_lower)
               \/ \E k \in 1..Len(ingredient.aliases) :
                    Contains(Lower(ingredient.aliases[k]), search_lower)
            THEN <<ingredient>> ELSE <<>>)
           \o FindMatches(Tail(table), search_lower)

find_ingredient(search_term) == FindMatches(ingredients, Lower(search_term))

\* get_interaction: both arguments through the alias index (falling back to
\* the argument itself), then the edge of the graph
get_interaction(ingredient_a, ingredient_b) ==
  LET id_a == IndexGet(alias_index, Lower(ingredient_a), ingredient_a)
      id_b == IndexGet(alias_index, Lower(ingredient_b), ingredient_b)
  IN  IF nx_has_edge(graph, id_a, id_b)
      THEN <<nx_edge_data(graph, id_a, id_b).interaction>>
      ELSE <<>>

\* variant: without the membership test, Graph.neighbors raises for a string
\* that is not a node
get_all_interactions_unguarded(ingredient_id) ==
  IF ingredient_id \notin DOMAIN graph.node
  THEN <<[raised |-> "NetworkXError"]>>
  ELSE [i \in 1..Len(graph.adj[ingredient_id]) |->
          nx_edge_data(graph, ingredient_id, graph.adj[ingredient_id][i]).interaction]

\* get_all_interactions: the records on the edges of a node, in neighbour order
get_all_interactions(ingredient_id) ==
  IF ingredient_id \notin DOMAIN graph.node
  THEN <<>>
  ELSE [i \in 1..Len(graph.adj[ingredient_id]) |->
          nx_edge_data(graph, ingredient_id, graph.adj[ingredient_id][i]).interaction]

(***************************************************************************)
(* check_compatibility                                                     *)
(***************************************************************************)
EmptyReport ==
  [ conflicts |-> <<>>, cautions |-> <<>>, synergies |-> <<>>,
    wait_times |-> <<>>, is_compatible |-> TRUE ]

RECURSIVE NormalizeIds(_)
\* the "Normalize IDs" loop: entries that do not resolve are dropped
NormalizeIds(ingredient_ids) ==
  IF ingredient_ids = <<>> THEN <<>>
  ELSE LET ing_id == Head(ingredient_ids)
           resolved == IndexGet(alias_index, Lower(ing_id), ing_id)
       IN  (IF HasIngredient(ingredients, resolved) THEN <<resolved>> ELSE <<>>)
             \o NormalizeIds(Tail(ingredient_ids))

PairInfo(id_a, id_b, interaction) ==
  [ ingredient_a |-> IngredientAt(ingredients, id_a).name,
    ingredient_b |-> IngredientAt(ingredients, id_b).name,
    explanation |-> interaction.explanation,
    recommendation |-> interaction.recommendation,
    severity |-> interaction.severity ]

WaitInfo(pair_info, interaction) ==
  [ ingredient_a |-> pair_info.ingredient_a,
    ingredient_b |-> pair_info.ingredient_b,
    explanation |-> pair_info.explanation,
    recommendation |-> pair_info.recommendation,
    severity |-> pair_info.severity,
    wait_minutes |-> interaction.wait_minutes ]

\* variant: the chain without its DEACTIVATES branch
BucketPairIgnoresDeactivates(result, pair_info, interaction) ==
  LET type == interaction.interaction_type
  IN  IF type = "CONFLICTS"
      THEN [result EXCEPT !.conflicts = Append(@, pair_info), !.is_compatible = FALSE]
      ELSE IF type = "CAUTION"
      THEN [result EXCEPT !.cautions = Append(@, pair_info)]
      ELSE IF type = "SYNERGIZES"
      THEN [result EXCEPT !.synergies = Append(@, pair_info)]
      ELSE IF type = "REQUIRES_WAITING"
      THEN [result EXCEPT !.wait_times = Append(@, WaitInfo(pair_info, interaction))]
      ELSE result

\* the if/elif chain on interaction.interaction_type
BucketPair(result, pair_info, interaction) ==
  LET type == interaction.interaction_type
  IN  IF type = "CONFLICTS"
      THEN [result EXCEPT !.conflicts = Append(@, pair_info), !.is_compatible = FALSE]
      ELSE IF type = "CAUTION"
      THEN [result EXCEPT !.cautions = Append(@, pair_info)]
      ELSE IF type = "SYNERGIZES"
      THEN [result EXCEPT !.synergies = Append(@, pair_info)]
      ELSE IF type = "REQUIRES_WAITING"
      THEN [result EXCEPT !.wait_times = Append(@, WaitInfo(pair_info, interaction))]
      ELSE IF type = "DEACTIVATES"
      THEN [result EXCEPT !.conflicts = Append(@, pair_info), !.is_compatible = FALSE]
      ELSE result

\* variant: a pair without a record is reported as a caution when the pH
\* ranges of its ingredients are more than 1.0 apart
CheckPairWithPh(result, id_a, id_b) ==
  LET interaction == get_interaction(id_a, id_b)
      ph_a == IngredientAt(ingredients, id_a).optimal_ph
      ph_b == IngredientAt(ingredients, id_b).optimal_ph
  IN  IF interaction # <<>>
      THEN BucketPair(result, PairInfo(id_a, id_b, interaction[1]), interaction[1])
      ELSE IF /\ ph_a # <<>>
              /\ ph_b # <<>>
              /\ (ph_a[2] < ph_b[1] - 10 \/ ph_b[2] < ph_a[1] - 10)
      THEN [result EXCEPT !.cautions =
              Append(@, [ ingredient_a |-> IngredientAt(ingredients, id_a).name,
                          ingredient_b |-> IngredientAt(ingredients, id_b).name,
                          explanation |-> "Potential pH conflict",
                          recommendation |-> "", severity |-> 5 ])]
      ELSE result

\* the body of the inner loop for one pair
CheckPair(result, id_a, id_b) ==
  LET interaction == get_interaction(id_a, id_b)
  IN  IF interaction # <<>>
      THEN BucketPair(result, PairInfo(id_a, id_b, interaction[1]), interaction[1])
      ELSE result

\* variant: an entry is only checked against the entry that follows it
CheckAgainstNextOnly(result, id_a, rest) ==
  IF rest = <<>> THEN result ELSE CheckPair(result, id_a, Head(rest))

RECURSIVE CheckAgainst(_, _, _)
\* for id_b in normalized_ids[i+1:]
CheckAgainst(result, id_a, rest) ==
  IF rest = <<>> THEN result
  ELSE CheckAgainst(CheckPair(result, id_a, Head(rest)), id_a, Tail(rest))

\* variant: only the first entry is checked against the entries after it
CheckAllPairsFirstOnly(result, normalized_ids) ==
  IF normalized_ids = <<>> THEN result
  ELSE CheckAgainst(result, Head(normalized_ids), Tail(normalized_ids))

RECURSIVE CheckAllPairs(_, _)
\* for i, id_a in enumerate(normalized_ids)
CheckAllPairs(result, normalized_ids) ==
  IF normalized_ids = <<>> THEN result
  ELSE CheckAllPairs(CheckAgainst(result, Head(normalized_ids), Tail(normalized_ids)),
                     Tail(normalized_ids))

check_compatibility(ingredient_ids) ==
  CheckAllPairs(EmptyReport, NormalizeIds(ingredient_ids))

(***************************************************************************)
(* get_recommended_ingredients                                             *)
(***************************************************************************)
\* len(set(x.addresses_concerns) & set(profile.concerns))
ConcernMatches(ingredient, profile) ==
  Cardinality(Range(ingredient.addresses_concerns) \cap Range(profile.concerns))

\* variant: the caution skin types are not looked at
IsRecommendedAnySkin(ingredient, profile) ==
  LET addresses_concern ==
        \E i \in 1..Len(profile.concerns) :
          profile.concerns[i] \in Range(ingredient.addresses_concerns)
      not_sensitive == ingredient.id \notin Range(profile.sensitivities)
  IN  addresses_concern /\ not_sensitive

IsRecommended(ingredient, profile) ==
  LET addresses_concern ==
        \E i \in 1..Len(profile.concerns) :
          profile.concerns[i] \in Range(ingredient.addresses_concerns)
      safe_for_skin == profile.skin_type \notin Range(ingredient.caution_skin_types)
      not_sensitive == ingredient.id \notin Range(profile.sensitivities)
  IN  addresses_concern /\ safe_for_skin /\ not_sensitive

RECURSIVE FilterRecommended(_, _)
FilterRecommended(table, profile) ==
  IF table = <<>> THEN <<>>
  ELSE (IF IsRecommended(Head(table), profile) THEN <<Head(table)>> ELSE <<>>)
         \o FilterRecommended(Tail(table), profile)

RECURSIVE InsertByMatchesUnstable(_, _, _)
\* variant: x goes before the elements whose key equals its own
InsertByMatchesUnstable(sorted, x, profile) ==
  IF sorted = <<>> THEN <<x>>
  ELSE IF ConcernMatches(Head(sorted), profile) > ConcernMatches(x, profile)
       THEN <<Head(sorted)>> \o InsertByMatchesUnstable(Tail(sorted), x, profile)
       ELSE <<x>> \o sorted

RECURSIVE InsertByMatches(_, _, _)
\* x goes after every element whose key is at least its own
InsertByMatches(sorted, x, profile) ==
  IF sorted = <<>> THEN <<x>>
  ELSE IF ConcernMatches(Head(sorted), profile) >= ConcernMatches(x, profile)
       THEN <<Head(sorted)>> \o InsertByMatches(Tail(sorted), x, profile)
       ELSE <<x>> \o sorted

RECURSIVE SortByMatches(_, _, _)
\* list.sort(key=..., reverse=True): stable, larger keys first
SortByMatches(sorted, rest, profile) ==
  IF rest = <<>> THEN sorted
  ELSE SortByMatches(InsertByMatches(sorted, Head(rest), profile), Tail(rest), profile)

get_recommended_ingredients(profile) ==
  SortByMatches(<<>>, FilterRecommended(ingredients, profile), profile)

(***************************************************************************)
(* explain_interaction.  The returned text is the sequence of its lines;   *)
(* a line is the fixed wording (tag), the ingredient names and numbers     *)
(* formatted into it, and the free text copied into it.                    *)
(***************************************************************************)
Line(tag, names, nums, text) ==
  [tag |-> tag, names |-> names, nums |-> nums, text |-> text]

BlankLine == Line("", <<>>, <<>>, "")

\* variant: ranges exactly 1.0 apart count as a conflict
check_implicit_conflicts_inclusive(ing_a, ing_b) ==
  IF ing_a.optimal_ph # <<>> /\ ing_b.optimal_ph # <<>>
  THEN LET a_min == ing_a.optimal_ph[1]
           a_max == ing_a.optimal_ph[2]
           b_min == ing_b.optimal_ph[1]
           b_max == ing_b.optimal_ph[2]
       IN  IF a_max <= b_min - 10 \/ b_max <= a_min - 10
           THEN << <<Line("Potential pH conflict", <<ing_a.name, ing_b.name>>,
                          <<a_min, a_max, b_min, b_max>>, "")>> >>
           ELSE <<>>
  ELSE <<>>

\* _check_implicit_conflicts: None, or the pH-conflict text
check_implicit_conflicts(ing_a, ing_b) ==
  IF ing_a.optimal_ph # <<>> /\ ing_b.optimal_ph # <<>>
  THEN LET a_min == ing_a.optimal_ph[1]
           a_max == ing_a.optimal_ph[2]
           b_min == ing_b.optimal_ph[1]
           b_max == ing_b.optimal_ph[2]
       IN  IF a_max < b_min - 10 \/ b_max < a_min - 10
           THEN << <<Line("Potential pH conflict", <<ing_a.name, ing_b.name>>,
                          <<a_min, a_max, b_min, b_max>>, "")>> >>
           ELSE <<>>
  ELSE <<>>

\* the header appended for the interaction type, if any
HeaderLines(interaction, ing_a, ing_b) ==
  LET type == interaction.interaction_type
      names == <<ing_a.name, ing_b.name>>
  IN  IF type = "CONFLICTS" THEN <<Line("CONFLICT", names, <<>>, "")>>
      ELSE IF type = "CAUTION" THEN <<Line("CAUTION", names, <<>>, "")>>
      ELSE IF type = "SYNERGIZES" THEN <<Line("SYNERGY", names, <<>>, "")>>
      ELSE IF type = "REQUIRES_WAITING" THEN <<Line("TIMING", names, <<>>, "")>>
      ELSE <<>>

\* the three optional parts; each starts with "\n", so a blank line precedes it
DetailLines(interaction) ==
  (IF interaction.explanation # ""
     THEN <<BlankLine, Line("Why", <<>>, <<>>, interaction.explanation)>> ELSE <<>>)
  \o (IF interaction.recommendation # ""
     THEN <<BlankLine, Line("Recommendation", <<>>, <<>>, interaction.recommendation)>>
     ELSE <<>>)
  \o (IF interaction.wait_minutes # <<>> /\ interaction.wait_minutes # <<0>>
     THEN <<BlankLine, Line("Wait time", <<>>, interaction.wait_minutes, "")>>
     ELSE <<>>)

explain_interaction(ingredient_a, ingredient_b) ==
  LET ing_a == get_ingredient(ingredient_a)
      ing_b == get_ingredient(ingredient_b)
  IN  IF ing_a = <<>> \/ ing_b = <<>>
      THEN <<Line("One or both ingredients not found in database.", <<>>, <<>>, "")>>
      ELSE LET interaction == get_interaction(ingredient_a, ingredient_b)
           IN  IF interaction = <<>>
               THEN LET explanation == check_implicit_conflicts(ing_a[1], ing_b[1])
                    IN  IF explanation # <<>>
                        THEN explanation[1]
                        ELSE <<Line("No known interaction. Generally safe to use together.",
                                    <<ing_a[1].name, ing_b[1].name>>, <<>>, "")>>
               ELSE HeaderLines(interaction[1], ing_a[1], ing_b[1])
                      \o DetailLines(interaction[1])

(***************************************************************************)
(* SkincareAdvisor (app/core/agent/advisor.py).  Questions are sequences   *)
(* of one-char strings: the advisor lower-cases them and searches them for *)
(* substrings.                                                             *)
(***************************************************************************)
\* self._ingredient_aliases, in the order the dict literal lists its keys
ingredient_aliases ==
  <<
  [alias |-> <<"v","i","t","a","m","i","n"," ","c">>,
   id |-> <<"v","i","t","a","m","i","n","_","c">>],
  [alias |-> <<"v","i","t"," ","c">>,
   id |-> <<"v","i","t","a","m","i","n","_","c">>],
  [alias |-> <<"v","i","t","c">>,
   id |-> <<"v","i","t","a","m","i","n","_","c">>],
  [alias |-> <<"a","s","c","o","r","b","i","c"," ","a","c","i","d">>,
   id |-> <<"v","i","t","a","m","i","n","_","c">>],
  [alias |-> <<"l","-","a","s","c","o","r","b","i","c"," ","a","c","i","d">>,
   id |-> <<"v","i","t","a","m","i","n","_","c">>],
  [alias |-> <<"l"," ","a","s","c","o","r","b","i","c"," ","a","c","i","d">>,
   id |-> <<"v","i","t","a","m","i","n","_","c">>],
  [alias |-> <<"a","s","c","o","r","b","i","c">>,
   id |-> <<"v","i","t","a","m","i","n","_","c">>],
  [alias |-> <<"r","e","t","i","n","o","l">>,
   id |-> <<"r","e","t","i","n","o","l">>],
  [alias |-> <<"r","e","t","i","n","o","i","d">>,
   id |-> <<"r","e","t","i","n","o","l">>],
  [alias |-> <<"r","e","t","i","n","-","a">>,
   id |-> <<"r","e","t","i","n","o","l">>],
  [alias |-> <<"r","e","t","i","n"," ","a">>,
   id |-> <<"r","e","t","i","n","o","l">>],
  [alias |-> <<"t","r","e","t","i","n","o","i","n">>,
   id |-> <<"r","e","t","i","n","o","l">>],
  [alias |-> <<"r","e","t","i","n","a","l">>,
   id |-> <<"r","e","t","i","n","o","l">>],
  [alias |-> <<"r","e","t","i","n","a","l","d","e","h","y","d","e">>,
   id |-> <<"r","e","t","i","n","o","l">>],
  [alias |-> <<"a","h","a">>,
   id |-> <<"g","l","y","c","o","l","i","c","_","a","c","i","d">>],
  [alias |-> <<"a","h","a","s">>,
   id |-> <<"g","l","y","c","o","l","i","c","_","a","c","i","d">>],
  [alias |-> <<"a","l","p","h","a"," ","h","y","d","r","o","x","y"," ","a","c","i","d">>,
   id |-> <<"g","l","y","c","o","l","i","c","_","a","c","i","d">>],
  [alias |-> <<"a","l","p","h","a"," ","h","y","d","r","o","x","y">>,
   id |-> <<"g","l","y","c","o","l","i","c","_","a","c","i","d">>],
  [alias |-> <<"g","l","y","c","o","l","i","c"," ","a","c","i","d">>,
   id |-> <<"g","l","y","c","o","l","i","c","_","a","c","i","d">>],
  [alias |-> <<"g","l","y","c","o","l","i","c">>,
   id |-> <<"g","l","y","c","o","l","i","c","_","a","c","i","d">>],
  [alias |-> <<"l","a","c","t","i","c"," ","a","c","i","d">>,
   id |-> <<"l","a","c","t","i","c","_","a","c","i","d">>],
  [alias |-> <<"l","a","c","t","i","c">>,
   id |-> <<"l","a","c","t","i","c","_","a","c","i","d">>],
  [alias |-> <<"m","a","n","d","e","l","i","c"," ","a","c","i","d">>,
   id |-> <<"m","a","n","d","e","l","i","c","_","a","c","i","d">>],
  [alias |-> <<"m","a","n","d","e","l","i","c">>,
   id |-> <<"m","a","n","d","e","l","i","c","_","a","c","i","d">>],
  [alias |-> <<"b","h","a">>,
   id |-> <<"s","a","l","i","c","y","l","i","c","_","a","c","i","d">>],
  [alias |-> <<"b","h","a","s">>,
   id |-> <<"s","a","l","i","c","y","l","i","c","_","a","c","i","d">>],
  [alias |-> <<"b","e","t","a"," ","h","y","d","r","o","x","y"," ","a","c","i","d">>,
   id |-> <<"s","a","l","i","c","y","l","i","c","_","a","c","i","d">>],
  [alias |-> <<"b","e","t","a"," ","h","y","d","r","o","x","y">>,
   id |-> <<"s","a","l","i","c","y","l","i","c","_","a","c","i","d">>],
  [alias |-> <<"s","a","l","i","c","y","l","i","c"," ","a","c","i","d">>,
   id |-> <<"s","a","l","i","c","y","l","i","c","_","a","c","i","d">>],
  [alias |-> <<"s","a","l","i","c","y","l","i","c">>,
   id |-> <<"s","a","l","i","c","y","l","i","c","_","a","c","i","d">>],
  [alias |-> <<"h","y","a","l","u","r","o","n","i","c"," ","a","c","i","d">>,
   id |-> <<"h","y","a","l","u","r","o","n","i","c","_","a","c","i","d">>],
  [alias |-> <<"h","y","a","l","u","r","o","n","i","c">>,
   id |-> <<"h","y","a","l","u","r","o","n","i","c","_","a","c","i","d">>],
  [alias |-> <<"h","a">>,
   id |-> <<"h","y","a","l","u","r","o","n","i","c","_","a","c","i","d">>],
  [alias |-> <<"n","i","a","c","i","n","a","m","i","d","e">>,
   id |-> <<"n","i","a","c","i","n","a","m","i","d","e">>],
  [alias |-> <<"n","i","a","c","i","n">>,
   id |-> <<"n","i","a","c","i","n","a","m","i","d","e">>],
  [alias |-> <<"v","i","t","a","m","i","n"," ","b","3">>,
   id |-> <<"n","i","a","c","i","n","a","m","i","d","e">>],
  [alias |-> <<"v","i","t"," ","b","3">>,
   id |-> <<"n","i","a","c","i","n","a","m","i","d","e">>],
  [alias |-> <<"b","e","n","z","o","y","l"," ","p","e","r","o","x","i","d","e">>,
   id |-> <<"b","e","n","z","o","y","l","_","p","e","r","o","x","i","d","e">>],
  [alias |-> <<"b","e","n","z","o","y","l">>,
   id |-> <<"b","e","n","z","o","y","l","_","p","e","r","o","x","i","d","e">>],
  [alias |-> <<"b","p">>,
   id |-> <<"b","e","n","z","o","y","l","_","p","e","r","o","x","i","d","e">>],
  [alias |-> <<"a","z","e","l","a","i","c"," ","a","c","i","d">>,
   id |-> <<"a","z","e","l","a","i","c","_","a","c","i","d">>],
  [alias |-> <<"a","z","e","l","a","i","c">>,
   id |-> <<"a","z","e","l","a","i","c","_","a","c","i","d">>],
  [alias |-> <<"v","i","t","a","m","i","n"," ","e">>,
   id |-> <<"v","i","t","a","m","i","n","_","e">>],
  [alias |-> <<"v","i","t"," ","e">>,
   id |-> <<"v","i","t","a","m","i","n","_","e">>],
  [alias |-> <<"t","o","c","o","p","h","e","r","o","l">>,
   id |-> <<"v","i","t","a","m","i","n","_","e">>],
  [alias |-> <<"c","e","r","a","m","i","d","e","s">>,
   id |-> <<"c","e","r","a","m","i","d","e","s">>],
  [alias |-> <<"c","e","r","a","m","i","d","e">>,
   id |-> <<"c","e","r","a","m","i","d","e","s">>],
  [alias |-> <<"p","e","p","t","i","d","e","s">>,
   id |-> <<"p","e","p","t","i","d","e","s">>],
  [alias |-> <<"p","e","p","t","i","d","e">>,
   id |-> <<"p","e","p","t","i","d","e","s">>],
  [alias |-> <<"s","q","u","a","l","a","n","e">>,
   id |-> <<"s","q","u","a","l","a","n","e">>],
  [alias |-> <<"z","i","n","c">>,
   id |-> <<"z","i","n","c">>],
  [alias |-> <<"z","i","n","c"," ","o","x","i","d","e">>,
   id |-> <<"z","i","n","c">>],
  [alias |-> <<"c","e","n","t","e","l","l","a">>,
   id |-> <<"c","e","n","t","e","l","l","a","_","a","s","i","a","t","i","c","a">>],
  [alias |-> <<"c","i","c","a">>,
   id |-> <<"c","e","n","t","e","l","l","a","_","a","s","i","a","t","i","c","a">>],
  [alias |-> <<"c","e","n","t","e","l","l","a"," ","a","s","i","a","t","i","c","a">>,
   id |-> <<"c","e","n","t","e","l","l","a","_","a","s","i","a","t","i","c","a">>],
  [alias |-> <<"a","r","b","u","t","i","n">>,
   id |-> <<"a","r","b","u","t","i","n">>],
  [alias |-> <<"a","l","p","h","a"," ","a","r","b","u","t","i","n">>,
   id |-> <<"a","r","b","u","t","i","n">>],
  [alias |-> <<"k","o","j","i","c"," ","a","c","i","d">>,
   id |-> <<"k","o","j","i","c","_","a","c","i","d">>],
  [alias |-> <<"k","o","j","i","c">>,
   id |-> <<"k","o","j","i","c","_","a","c","i","d">>],
  [alias |-> <<"t","r","a","n","e","x","a","m","i","c"," ","a","c","i","d">>,
   id |-> <<"t","r","a","n","e","x","a","m","i","c","_","a","c","i","d">>],
  [alias |-> <<"t","r","a","n","e","x","a","m","i","c">>,
   id |-> <<"t","r","a","n","e","x","a","m","i","c","_","a","c","i","d">>],
  [alias |-> <<"f","e","r","u","l","i","c"," ","a","c","i","d">>,
   id |-> <<"f","e","r","u","l","i","c","_","a","c","i","d">>],
  [alias |-> <<"f","e","r","u","l","i","c">>,
   id |-> <<"f","e","r","u","l","i","c","_","a","c","i","d">>],
  [alias |-> <<"p","a","n","t","h","e","n","o","l">>,
   id |-> <<"p","a","n","t","h","e","n","o","l">>],
  [alias |-> <<"v","i","t","a","m","i","n"," ","b","5">>,
   id |-> <<"p","a","n","t","h","e","n","o","l">>],
  [alias |-> <<"p","r","o"," ","v","i","t","a","m","i","n"," ","b","5">>,
   id |-> <<"p","a","n","t","h","e","n","o","l">>],
  [alias |-> <<"a","l","l","a","n","t","o","i","n">>,
   id |-> <<"a","l","l","a","n","t","o","i","n">>],
  [alias |-> <<"b","a","k","u","c","h","i","o","l">>,
   id |-> <<"b","a","k","u","c","h","i","o","l">>]
  >>

\* the place of entry k after sorted(keys, key=len, reverse=True): behind the
\* longer aliases and, the sort being stable, behind the earlier ones of its
\* own length
SortedPlace(k) ==
  1 + Cardinality({ j \in 1..Len(ingredient_aliases) :
                      \/ Len(ingredient_aliases[j].alias) > Len(ingredient_aliases[k].alias)
                      \/ /\ Len(ingredient_aliases[j].alias) = Len(ingredient_aliases[k].alias)
                         /\ j < k })

sorted_aliases ==
  [ r \in 1..Len(ingredient_aliases) |->
      ingredient_aliases[CHOOSE k \in 1..Len(ingredient_aliases) : SortedPlace(k) = r] ]

RECURSIVE MatchAliases(_, _, _)
\* Strategy 1: the alias loop.  The matched alias is replaced by a space
\* in the search text when its ingredient id is added to found.
MatchAliases(aliases, found, text_lower) ==
  IF aliases = <<>> THEN [found |-> found, text_lower |-> text_lower]
  ELSE LET alias == Head(aliases).alias
           ing_id == Head(aliases).id
       IN  IF Contains(text_lower, alias) /\ ing_id \notin found
           THEN MatchAliases(Tail(aliases), found \cup {ing_id},
                             Replace(text_lower, alias, <<" ">>))
           ELSE MatchAliases(Tail(aliases), found, text_lower)

\* Strategy 2: the lower-cased name of each catalog ingredient
MatchNames(table, found, text_lower) ==
  found \cup { table[k].id : k \in
                 {k \in 1..Len(table) : Contains(text_lower, Lower(table[k].name))} }

\* [ing_id, ing_id.replace("_", " "), ing_id.replace("_", "-")]
Variations(ing_id) ==
  << ing_id, Replace(ing_id, <<"_">>, <<" ">>), Replace(ing_id, <<"_">>, <<"-">>) >>

\* Strategy 3: each catalog id, as it is and with "_" as " " or "-"
MatchIds(table, found, text_lower) ==
  found \cup { table[k].id : k \in
                 { k \in 1..Len(table) :
                     \E v \in 1..3 : Contains(text_lower, Variations(table[k].id)[v]) } }

\* _extract_ingredients, up to the order of list(found): the set found
extract_ingredients(text) ==
  LET first == MatchAliases(sorted_aliases, {}, Lower(text))
  IN  MatchIds(ingredients,
               MatchNames(ingredients, first.found, first.text_lower),
               first.text_lower)

\* the block of one mentioned ingredient; description and how_it_works are
\* free text of the catalog that nothing here reads
IngredientBlock(ing) ==
  [ tag |-> "### ingredient", names |-> <<ing.name>>, nums |-> <<>>, text |-> "",
    category |-> ing.category,
    best_for |-> IF ing.addresses_concerns # <<>>
                 THEN ing.addresses_concerns ELSE <<"General skincare">>,
    best_time |-> ing.time_of_day,
    beginner_friendly |-> ing.beginner_friendly ]

RECURSIVE IngredientBlocks(_)
\* "Get ingredient details": ids that do not resolve get no block
IngredientBlocks(ids) ==
  IF ids = <<>> THEN <<>>
  ELSE LET ing == get_ingredient(Head(ids))
       IN  (IF ing # <<>> THEN <<IngredientBlock(ing[1])>> ELSE <<>>)
             \o IngredientBlocks(Tail(ids))

RECURSIVE EntryLines(_, _)
\* the "- explanation" / "- **Recommendation**" lines of a bucket
EntryLines(bucket, kind) ==
  IF bucket = <<>> THEN <<>>
  ELSE LET c == Head(bucket)
       IN  (IF kind = "cautions" \/ c.explanation # ""
            THEN <<Line("-", <<>>, <<>>, c.explanation)>> ELSE <<>>)
           \o (IF kind = "cautions" /\ c.recommendation # ""
               THEN <<Line("- **Recommendation**", <<>>, <<>>, c.recommendation)>>
               ELSE <<>>)
           \o EntryLines(Tail(bucket), kind)

\* the parts appended for one pair of mentioned ingredients
PairParts(ing_a, ing_b) ==
  LET explanation == explain_interaction(ing_a, ing_b)
      compat == check_compatibility(<<ing_a, ing_b>>)
      ing_a_name == IF get_ingredient(ing_a) # <<>>
                    THEN get_ingredient(ing_a)[1].name ELSE ing_a
      ing_b_name == IF get_ingredient(ing_b) # <<>>
                    THEN get_ingredient(ing_b)[1].name ELSE ing_b
  IN  <<Line("### pair", <<ing_a_name, ing_b_name>>, <<>>, "")>>
      \o explanation
      \o (IF compat.conflicts # <<>>
          THEN <<Line("**CONFLICT**", <<>>, <<>>, "")>>
                 \o EntryLines(compat.conflicts, "conflicts")
          ELSE <<>>)
      \o (IF compat.cautions # <<>>
          THEN <<Line("**CAUTION**", <<>>, <<>>, "")>>
                 \o EntryLines(compat.cautions, "cautions")
          ELSE <<>>)
      \o (IF compat.synergies # <<>>
          THEN <<Line("**SYNERGY**", <<>>, <<>>, "")>>
                 \o EntryLines(compat.synergies, "synergies")
          ELSE <<>>)
      \o (IF compat.conflicts = <<>> /\ compat.cautions = <<>> /\ compat.synergies = <<>>
          THEN <<Line("No known interactions - generally safe to use together",
                      <<>>, <<>>, "")>>
          ELSE <<>>)

RECURSIVE PairsWith(_, _)
\* for ing_b in ingredients[i+1:]
PairsWith(ing_a, rest) ==
  IF rest = <<>> THEN <<>>
  ELSE PairParts(ing_a, Head(rest)) \o PairsWith(ing_a, Tail(rest))

RECURSIVE AllPairs(_)
\* for i, ing_a in enumerate(ingredients)
AllPairs(ids) ==
  IF ids = <<>> THEN <<>>
  ELSE PairsWith(Head(ids), Tail(ids)) \o AllPairs(Tail(ids))

\* _build_knowledge_context: the text is the sequence of its parts, "" is <<>>
build_knowledge_context(ids) ==
  IF ids = <<>> THEN <<>>
  ELSE IngredientBlocks(ids)
         \o (IF Len(ids) >= 2
             THEN <<Line("## Interactions", <<>>, <<>>, "")>> \o AllPairs(ids)
             ELSE <<>>)

\* concern_keywords of _get_concern_context
concern_keywords ==
  <<
  [keyword |-> <<"a","c","n","e">>, concern |-> "ACNE"],
  [keyword |-> <<"p","i","m","p","l","e">>, concern |-> "ACNE"],
  [keyword |-> <<"b","r","e","a","k","o","u","t">>, concern |-> "ACNE"],
  [keyword |-> <<"a","g","i","n","g">>, concern |-> "AGING"],
  [keyword |-> <<"a","n","t","i","-","a","g","i","n","g">>, concern |-> "AGING"],
  [keyword |-> <<"w","r","i","n","k","l","e">>, concern |-> "AGING"],
  [keyword |-> <<"f","i","n","e"," ","l","i","n","e">>, concern |-> "AGING"],
  [keyword |-> <<"d","a","r","k"," ","s","p","o","t">>, concern |-> "HYPERPIGMENTATION"],
  [keyword |-> <<"h","y","p","e","r","p","i","g","m","e","n","t","a","t","i","o","n">>, concern |-> "HYPERPIGMENTATION"],
  [keyword |-> <<"p","i","g","m","e","n","t","a","t","i","o","n">>, concern |-> "HYPERPIGMENTATION"],
  [keyword |-> <<"s","u","n"," ","s","p","o","t">>, concern |-> "HYPERPIGMENTATION"],
  [keyword |-> <<"m","e","l","a","s","m","a">>, concern |-> "HYPERPIGMENTATION"],
  [keyword |-> <<"d","r","y">>, concern |-> "DRYNESS"],
  [keyword |-> <<"d","r","y","n","e","s","s">>, concern |-> "DRYNESS"],
  [keyword |-> <<"d","e","h","y","d","r","a","t">>, concern |-> "DRYNESS"],
  [keyword |-> <<"o","i","l","y">>, concern |-> "OILINESS"],
  [keyword |-> <<"o","i","l","i","n","e","s","s">>, concern |-> "OILINESS"],
  [keyword |-> <<"s","e","b","u","m">>, concern |-> "OILINESS"],
  [keyword |-> <<"s","e","n","s","i","t","i","v","e">>, concern |-> "SENSITIVITY"],
  [keyword |-> <<"s","e","n","s","i","t","i","v","i","t","y">>, concern |-> "SENSITIVITY"],
  [keyword |-> <<"i","r","r","i","t","a","t">>, concern |-> "SENSITIVITY"],
  [keyword |-> <<"r","e","d","n","e","s","s">>, concern |-> "REDNESS"],
  [keyword |-> <<"r","o","s","a","c","e","a">>, concern |-> "REDNESS"],
  [keyword |-> <<"d","u","l","l">>, concern |-> "DULLNESS"],
  [keyword |-> <<"g","l","o","w">>, concern |-> "DULLNESS"],
  [keyword |-> <<"b","r","i","g","h","t">>, concern |-> "DULLNESS"],
  [keyword |-> <<"t","e","x","t","u","r","e">>, concern |-> "TEXTURE"],
  [keyword |-> <<"r","o","u","g","h">>, concern |-> "TEXTURE"],
  [keyword |-> <<"p","o","r","e">>, concern |-> "PORES"]
  >>

\* matched_concerns: a set, iterated in an order the hash seed decides
matched_concerns(question) ==
  { concern_keywords[k].concern : k \in
      { k \in 1..Len(concern_keywords) :
          Contains(Lower(question), concern_keywords[k].keyword) } }

RECURSIVE Recommendations(_, _)
\* the catalog ingredients that address the concern, in catalog order
Recommendations(table, concern) ==
  IF table = <<>> THEN <<>>
  ELSE (IF concern \in Range(Head(table).addresses_concerns)
        THEN <<Line("- **name**", <<Head(table).name>>, <<>>, "")>> ELSE <<>>)
       \o Recommendations(Tail(table), concern)

RECURSIVE ConcernSections(_)
ConcernSections(concerns) ==
  IF concerns = <<>> THEN <<>>
  ELSE LET recommendations == Recommendations(ingredients, Head(concerns))
       IN  (IF recommendations # <<>>
            THEN <<Line("### For", <<>>, <<>>, Head(concerns))>>
                   \o SubSeq(recommendations, 1,
                             IF Len(recommendations) < 5 THEN Len(recommendations) ELSE 5)
            ELSE <<>>)
           \o ConcernSections(Tail(concerns))

\* _get_concern_context, given the order in which the set is iterated
get_concern_context(concerns) ==
  IF concerns = <<>> THEN <<>>
  ELSE <<Line("## Recommended Ingredients for Your Concerns", <<>>, <<>>, "")>>
         \o ConcernSections(concerns)

\* the phrase lists of _classify_query, in the order of its if/elif chain
classify_phrases ==
  << [ query_type |-> "compatibility",
       phrases |-> <<<<"c","a","n"," ","i"," ","u","s","e">>, <<"c","a","n"," ","i"," ","m","i","x">>, <<"t","o","g","e","t","h","e","r">>, <<"c","o","m","b","i","n","e">>, <<"w","i","t","h">>>> ],
     [ query_type |-> "ingredient_info",
       phrases |-> <<<<"w","h","a","t"," ","i","s">>, <<"t","e","l","l"," ","m","e"," ","a","b","o","u","t">>, <<"h","o","w"," ","d","o","e","s">>, <<"w","h","a","t"," ","d","o","e","s">>>> ],
     [ query_type |-> "routine_help",
       phrases |-> <<<<"w","h","a","t"," ","o","r","d","e","r">>, <<"r","o","u","t","i","n","e">>, <<"l","a","y","e","r">>, <<"s","e","q","u","e","n","c","e">>, <<"f","i","r","s","t">>>> ],
     [ query_type |-> "concern_advice",
       phrases |-> <<<<"f","o","r"," ","a","c","n","e">>, <<"f","o","r"," ","a","g","i","n","g">>, <<"f","o","r"," ","d","r","y">>, <<"r","e","c","o","m","m","e","n","d">>,
                     <<"s","h","o","u","l","d"," ","i"," ","u","s","e"," ","f","o","r">>, <<"h","e","l","p"," ","w","i","t","h">>>> ] >>

RECURSIVE ClassifyFrom(_, _)
ClassifyFrom(chain, q) ==
  IF chain = <<>> THEN "general"
  ELSE IF \E k \in 1..Len(Head(chain).phrases) : Contains(q, Head(chain).phrases[k])
       THEN Head(chain).query_type
       ELSE ClassifyFrom(Tail(chain), q)

\* variant: the chain is tried from its last branch to its first
classify_query_reversed(question) ==
  ClassifyFrom(<<classify_phrases[4], classify_phrases[3],
                 classify_phrases[2], classify_phrases[1]>>, Lower(question))

\* _classify_query
classify_query(question) == ClassifyFrom(classify_phrases, Lower(question))

\* a follow-up question: its wording and the ingredient name put into it
Prompt(wording, name) == [prompt |-> wording, name |-> name]

\* general of _get_follow_ups
general_follow_ups ==
  << Prompt("What's a good routine for beginners?", <<>>),
     Prompt("How do I layer my products correctly?", <<>>),
     Prompt("What ingredients should I avoid mixing?", <<>>) >>

RECURSIVE WhenPrompts(_)
\* one "When is the best time to use" prompt per id that resolves
WhenPrompts(ids) ==
  IF ids = <<>> THEN <<>>
  ELSE LET ing == get_ingredient(Head(ids))
       IN  (IF ing # <<>>
            THEN <<Prompt("When is the best time to use {ing.name}?", ing[1].name)>>
            ELSE <<>>)
           \o WhenPrompts(Tail(ids))

RECURSIVE PadFollowUps(_)
\* the while loop: the first general prompt not yet listed, until there are 3
PadFollowUps(follow_ups) ==
  IF Len(follow_ups) < 3
       /\ \E k \in 1..Len(general_follow_ups) :
            general_follow_ups[k] \notin Range(follow_ups)
  THEN LET k == CHOOSE k \in 1..Len(general_follow_ups) :
                  /\ general_follow_ups[k] \notin Range(follow_ups)
                  /\ \A l \in 1..(k - 1) : general_follow_ups[l] \in Range(follow_ups)
       IN  PadFollowUps(Append(follow_ups, general_follow_ups[k]))
  ELSE follow_ups

\* variant: no "pair well" prompt for a single mentioned ingredient
get_follow_ups_generic_only(question, ids) ==
  LET padded == PadFollowUps(WhenPrompts(SubSeq(ids, 1, IF Len(ids) < 2 THEN Len(ids) ELSE 2)))
  IN  SubSeq(padded, 1, IF Len(padded) < 3 THEN Len(padded) ELSE 3)

\* _get_follow_ups
get_follow_ups(question, ids) ==
  LET when == WhenPrompts(SubSeq(ids, 1, IF Len(ids) < 2 THEN Len(ids) ELSE 2))
      pair == IF Len(ids) = 1 /\ get_ingredient(ids[1]) # <<>>
              THEN <<Prompt("What ingredients pair well with {ing.name}?",
                            get_ingredient(ids[1])[1].name)>>
              ELSE <<>>
      padded == PadFollowUps(when \o pair)
  IN  SubSeq(padded, 1, IF Len(padded) < 3 THEN Len(padded) ELSE 3)

\* the result of the "not ingredients and not context" branch
HelpResult ==
  [ query_type |-> "general",
    answer |-> [framing |-> "I'd be happy to help with your skincare question!",
                context |-> <<>>],
    confidence |-> 5,
    sources |-> <<>>,
    follow_up_questions |->
      << Prompt("Can I use retinol with niacinamide?", <<>>),
         Prompt("What ingredients help with acne?", <<>>),
         Prompt("What's a good anti-aging routine?", <<>>) >> ]

\* variant: a synergy outranks a caution
FramingSynergyFirst(compat) ==
  IF compat.conflicts # <<>> THEN "I'd be careful with this combination."
  ELSE IF compat.synergies # <<>>
       THEN "Great news - these ingredients work well together!"
  ELSE IF compat.cautions # <<>>
       THEN "These can be used together, but with some caution."
  ELSE "These ingredients are generally safe to use together."

\* the if/elif chain on the buckets of check_compatibility(ingredients)
Framing(compat) ==
  IF compat.conflicts # <<>> THEN "I'd be careful with this combination."
  ELSE IF compat.cautions # <<>>
       THEN "These can be used together, but with some caution."
  ELSE IF compat.synergies # <<>>
       THEN "Great news - these ingredients work well together!"
  ELSE "These ingredients are generally safe to use together."

\* variant: 0.8 only from two mentioned ingredients on
generate_rule_response_pairs_only(question, context, ids) ==
  IF ids = <<>> /\ context = <<>>
  THEN HelpResult
  ELSE [ query_type |-> classify_query(question),
         answer |-> [ framing |-> IF Len(ids) >= 2
                                  THEN Framing(check_compatibility(ids))
                                  ELSE "Here's what I know:",
                      context |-> context ],
         confidence |-> IF Len(ids) >= 2 THEN 8 ELSE 6,
         sources |-> ids,
         follow_up_questions |-> get_follow_ups(question, ids) ]

\* _generate_rule_response; confidence in tenths
generate_rule_response(question, context, ids) ==
  IF ids = <<>> /\ context = <<>>
  THEN HelpResult
  ELSE [ query_type |-> classify_query(question),
         answer |-> [ framing |-> IF Len(ids) >= 2
                                  THEN Framing(check_compatibility(ids))
                                  ELSE "Here's what I know:",
                      context |-> context ],
         confidence |-> IF ids # <<>> THEN 8 ELSE 6,
         sources |-> ids,
         follow_up_questions |-> get_follow_ups(question, ids) ]

\* variant: a failure of the client reaches the caller as an error result
generate_llm_response_propagating(question, context, ids, profile, outcome) ==
  IF outcome = "answers"
  THEN [ query_type |-> classify_query(question),
         answer |-> [framing |-> "response.content[0].text", context |-> <<>>],
         confidence |-> IF context # <<>> THEN 9 ELSE 7,
         sources |-> ids,
         follow_up_questions |-> get_follow_ups(question, ids) ]
  ELSE [ query_type |-> "general",
         answer |-> [framing |-> "LLM Error", context |-> <<>>],
         confidence |-> 0, sources |-> <<>>, follow_up_questions |-> <<>> ]

\* _generate_llm_response: the client answers, or anything in the try block
\* raises and the except branch takes the template path
generate_llm_response(question, context, ids, profile, outcome) ==
  IF outcome = "answers"
  THEN [ query_type |-> classify_query(question),
         answer |-> [framing |-> "response.content[0].text", context |-> <<>>],
         confidence |-> IF context # <<>> THEN 9 ELSE 7,
         sources |-> ids,
         follow_up_questions |-> get_follow_ups(question, ids) ]
  ELSE generate_rule_response(question, context, ids)

(***************************************************************************)
(* RoutineBuilder.build_routine (app/core/routines/builder.py).  The       *)
(* module is not among the sources; the builder is modelled from section   *)
(* 4.4 of spec.md, from its callers (api/v1/routines.py, ui/app.py) and    *)
(* from tests/test_skincare.py.  A product is a name and a list of         *)
(* ingredient ids.  What the description leaves open (the order key of a   *)
(* product without a resolved ingredient, the number of suggestions) is    *)
(* an argument, impl, that the callers of the model choose freely.         *)
(***************************************************************************)
Product(name, ids) == [name |-> name, ingredients |-> ids]

RECURSIVE FlattenIngredients(_)
\* step 1: the ingredient ids of all products, in order
FlattenIngredients(products) ==
  IF products = <<>> THEN <<>>
  ELSE Head(products).ingredients \o FlattenIngredients(Tail(products))

RECURSIVE UniqueIds(_)
\* step 1: each id once, at its first occurrence
UniqueIds(ids) ==
  IF ids = <<>> THEN <<>>
  ELSE LET init == UniqueIds(SubSeq(ids, 1, Len(ids) - 1))
           last == ids[Len(ids)]
       IN  IF last \in Range(init) THEN init ELSE Append(init, last)

\* the catalog entries of the ingredients of a product that resolve
ResolvedIngredients(product) ==
  { get_ingredient(product.ingredients[i])[1] :
      i \in { j \in 1..Len(product.ingredients) :
                get_ingredient(product.ingredients[j]) # <<>> } }

\* step 2: the least application_order of the resolved ingredients
order_key(product, impl) ==
  LET orders == {ing.application_order : ing \in ResolvedIngredients(product)}
  IN  IF orders = {} THEN impl.default_order
      ELSE CHOOSE x \in orders : \A y \in orders : x <= y

\* variant: a product goes before the products of the same key
InsertByKeyUnstable(sorted, product, impl) ==
  LET k == Cardinality({ i \in 1..Len(sorted) :
                           order_key(sorted[i], impl) < order_key(product, impl) })
  IN  SubSeq(sorted, 1, k) \o <<product>> \o SubSeq(sorted, k + 1, Len(sorted))

\* step 2: a product goes behind the products whose key is not larger
InsertByKey(sorted, product, impl) ==
  LET k == Cardinality({ i \in 1..Len(sorted) :
                           order_key(sorted[i], impl) <= order_key(product, impl) })
  IN  SubSeq(sorted, 1, k) \o <<product>> \o SubSeq(sorted, k + 1, Len(sorted))

RECURSIVE SortByKey(_, _, _)
SortByKey(sorted, rest, impl) ==
  IF rest = <<>> THEN sorted
  ELSE SortByKey(InsertByKey(sorted, Head(rest), impl), Tail(rest), impl)

\* step 3: the note of a product with an ingredient of the other time of day
TimeNote(product, time) ==
  IF \E ing \in ResolvedIngredients(product) :
       ing.time_of_day = (IF time = "AM" THEN "PM_ONLY" ELSE "AM_ONLY")
  THEN <<"not for this time of day">>
  ELSE <<>>

\* step 4: the longest wait a REQUIRES_WAITING record asks for between an
\* ingredient of one product and an ingredient of the next
WaitBetween(product, next) ==
  LET waits ==
        { get_interaction(a, b)[1].wait_minutes[1] :
            <<a, b>> \in { p \in Range(product.ingredients) \X Range(next.ingredients) :
                             /\ get_interaction(p[1], p[2]) # <<>>
                             /\ get_interaction(p[1], p[2])[1].interaction_type
                                  = "REQUIRES_WAITING"
                             /\ get_interaction(p[1], p[2])[1].wait_minutes # <<>> } }
  IN  IF waits = {} THEN 0 ELSE CHOOSE x \in waits : \A y \in waits : y <= x

RoutineSteps(sorted, time) ==
  [ i \in 1..Len(sorted) |->
      [ order |-> i,
        product_name |-> sorted[i].name,
        ingredients |-> sorted[i].ingredients,
        wait_after |-> IF i < Len(sorted) THEN WaitBetween(sorted[i], sorted[i + 1]) ELSE 0,
        notes |-> TimeNote(sorted[i], time) ] ]

\* variant: the sunscreen is asked for whatever the time of day
missing_essentials_any_time(products, time) ==
  IF \E i \in 1..Len(products) :
       \E ing \in ResolvedIngredients(products[i]) : ing.category = "SPF"
  THEN <<>>
  ELSE <<"SPF (Sunscreen)">>

\* step 5: a morning routine without an ingredient of the SPF category
missing_essentials(products, time) ==
  IF /\ time = "AM"
     /\ ~\E i \in 1..Len(products) :
           \E ing \in ResolvedIngredients(products[i]) : ing.category = "SPF"
  THEN <<"SPF (Sunscreen)">>
  ELSE <<>>

\* step 6: the first recommended ingredients that no product contains
routine_suggestions(products, profile, impl) ==
  IF profile = <<>> THEN <<>>
  ELSE LET present == Range(FlattenIngredients(products))
           absent == SelectSeq(get_recommended_ingredients(profile[1]),
                               LAMBDA ing : ing.id \notin present)
           n == IF Len(absent) < impl.max_suggestions
                THEN Len(absent) ELSE impl.max_suggestions
       IN  [i \in 1..n |-> absent[i].name]

RoutineAndAnalysis(report, sorted, products, time, profile, impl) ==
  [ routine |-> [time |-> time, steps |-> RoutineSteps(sorted, time)],
    analysis |->
      [ is_valid |-> report.is_compatible,
        conflicts |-> report.conflicts,
        cautions |-> report.cautions,
        synergies |-> report.synergies,
        wait_times |-> report.wait_times,
        missing_essentials |-> missing_essentials(products, time),
        suggestions |-> routine_suggestions(products, profile, impl) ] ]

build_routine(products, time, profile, impl) ==
  With(check_compatibility(UniqueIds(FlattenIngredients(products))), LAMBDA report :
    With(SortByKey(<<>>, products, impl), LAMBDA sorted :
      RoutineAndAnalysis(report, sorted, products, time, profile, impl)))

(***************************************************************************)
(* The handlers of POST /ingredients/check (api/v1/ingredients.py) and of  *)
(* POST /routines/build (api/v1/routines.py), from the validated request   *)
(* to the response.  A response is its status code, the detail of the      *)
(* HTTPException or the body, and the arguments the core was called with   *)
(* (<<>> when it was not called).                                          *)
(***************************************************************************)
\* dict.get(key, default) on a dict with string keys
DictGet(dict, key, default) ==
  IF key \in DOMAIN dict THEN dict[key] ELSE default

Rejected(status, detail) ==
  [status |-> status, detail |-> detail, body |-> <<>>, core |-> <<>>]

\* the first string of a list that kg.get_ingredient does not resolve
FirstUnknown(names) ==
  names[CHOOSE i \in 1..Len(names) :
          /\ get_ingredient(names[i]) = <<>>
          /\ \A j \in 1..(i - 1) : get_ingredient(names[j]) # <<>>]

RECURSIVE IdsOf(_)
\* the loop appending ing.id for each name, every name resolving
IdsOf(names) ==
  IF names = <<>> THEN <<>>
  ELSE <<get_ingredient(Head(names))[1].id>> \o IdsOf(Tail(names))

\* type_mapping of check_compatibility.convert_interaction
type_mapping ==
  [ conflicts |-> "CONFLICTS", caution |-> "CAUTION", synergizes |-> "SYNERGIZES",
    wait |-> "REQUIRES_WAITING", deactivates |-> "DEACTIVATES",
    sensitizing |-> "INCREASES_SENSITIVITY" ]

\* convert_interaction of ingredients.py: the entry of the report as an
\* InteractionResponse
convert_interaction(interaction_dict) ==
  LET raw_type == DictGet(interaction_dict, "interaction_type", "caution")
  IN  [ ingredient_a |-> interaction_dict["ingredient_a"],
        ingredient_b |-> interaction_dict["ingredient_b"],
        interaction_type |-> DictGet(type_mapping, raw_type, "CAUTION"),
        severity |-> DictGet(interaction_dict, "severity", 5),
        explanation |-> DictGet(interaction_dict, "explanation", ""),
        recommendation |-> DictGet(interaction_dict, "recommendation", "") ]

ConvertAll(bucket) == [i \in 1..Len(bucket) |-> convert_interaction(bucket[i])]

\* variant: the report is asked for before the names are looked up
api_check_compatibility_unchecked(names) ==
  IF Len(names) < 2 THEN Rejected(422, <<>>)
  ELSE LET result == check_compatibility(names)
       IN  IF \E i \in 1..Len(names) : get_ingredient(names[i]) = <<>>
           THEN [ status |-> 400, detail |-> <<FirstUnknown(names)>>,
                  body |-> <<>>, core |-> <<names>> ]
           ELSE [ status |-> 200, detail |-> <<>>,
                  body |-> << [ is_compatible |-> result.is_compatible,
                                conflicts |-> ConvertAll(result.conflicts),
                                cautions |-> ConvertAll(result.cautions),
                                synergies |-> ConvertAll(result.synergies),
                                wait_times |-> result.wait_times ] >>,
                  core |-> <<names>> ]

\* check_compatibility of ingredients.py; CompatibilityCheckRequest asks
\* for two ingredients or more (422 otherwise, before the handler runs)
api_check_compatibility(names) ==
  IF Len(names) < 2 THEN Rejected(422, <<>>)
  ELSE IF \E i \in 1..Len(names) : get_ingredient(names[i]) = <<>>
  THEN Rejected(400, <<FirstUnknown(names)>>)
  ELSE LET ingredient_ids == IdsOf(names)
           result == check_compatibility(ingredient_ids)
       IN  [ status |-> 200, detail |-> <<>>,
             body |-> << [ is_compatible |-> result.is_compatible,
                           conflicts |-> ConvertAll(result.conflicts),
                           cautions |-> ConvertAll(result.cautions),
                           synergies |-> ConvertAll(result.synergies),
                           wait_times |-> result.wait_times ] >>,
             core |-> <<ingredient_ids>> ]

\* type_mapping of build_routine.convert_interaction
routines_type_mapping ==
  [ conflicts |-> "CONFLICTS", caution |-> "CAUTION", synergizes |-> "SYNERGIZES" ]

\* convert_interaction of routines.py
routines_convert_interaction(interaction_dict) ==
  LET raw_type == DictGet(interaction_dict, "interaction_type", "caution")
  IN  [ ingredient_a |-> DictGet(interaction_dict, "ingredient_a", ""),
        ingredient_b |-> DictGet(interaction_dict, "ingredient_b", ""),
        interaction_type |-> DictGet(routines_type_mapping, raw_type, "CAUTION"),
        severity |-> DictGet(interaction_dict, "severity", 5),
        explanation |-> DictGet(interaction_dict, "explanation", ""),
        recommendation |-> DictGet(interaction_dict, "recommendation", "") ]

RoutinesConvertAll(bucket) ==
  [i \in 1..Len(bucket) |-> routines_convert_interaction(bucket[i])]

RECURSIVE ValidProducts(_)
\* the products of the request with their ingredients resolved
ValidProducts(products) ==
  IF products = <<>> THEN <<>>
  ELSE <<Product(Head(products).name, IdsOf(Head(products).ingredients))>>
         \o ValidProducts(Tail(products))

\* SkinProfile(skin_type=..., concerns=[...]) of the request's profile
ProfileOf(profile) ==
  IF profile = <<>> THEN <<>>
  ELSE << [ skin_type |-> profile[1].skin_type, concerns |-> profile[1].concerns,
            sensitivities |-> <<>> ] >>

\* build_routine of routines.py; RoutineBuildRequest asks for one product
\* or more and ProductRequest for one ingredient or more
api_build_routine(products, time, profile, impl) ==
  IF products = <<>> \/ \E i \in 1..Len(products) : products[i].ingredients = <<>>
  THEN Rejected(422, <<>>)
  ELSE IF \E n \in Range(FlattenIngredients(products)) : get_ingredient(n) = <<>>
  THEN LET product == products[CHOOSE i \in 1..Len(products) :
                                 /\ \E n \in Range(products[i].ingredients) :
                                      get_ingredient(n) = <<>>
                                 /\ \A j \in 1..(i - 1) :
                                      \A n \in Range(products[j].ingredients) :
                                        get_ingredient(n) # <<>>]
       IN  Rejected(400, <<FirstUnknown(product.ingredients), product.name>>)
  ELSE With(ValidProducts(products), LAMBDA valid :
         With(build_routine(valid, IF time = "am" THEN "AM" ELSE "PM",
                            ProfileOf(profile), impl), LAMBDA made :
           [ status |-> 200, detail |-> <<>>,
             body |-> << [ steps |-> made.routine.steps,
                           is_valid |-> made.analysis.is_valid,
                           conflicts |-> RoutinesConvertAll(made.analysis.conflicts),
                           cautions |-> RoutinesConvertAll(made.analysis.cautions),
                           synergies |-> RoutinesConvertAll(made.analysis.synergies),
                           missing_essentials |-> made.analysis.missing_essentials,
                           suggestions |-> made.analysis.suggestions ] >>,
             core |-> <<valid>> ]))

(***************************************************************************)
(* create_skincare_knowledge_base: the catalog's add_ingredient calls,     *)
(* then its add_interaction calls; the graph is returned after the last.   *)
(***************************************************************************)
\* the three routers as imported: nothing constructed yet
ApiInit ==
  [ ingredients_kg |-> <<>>, routines_kg |-> <<>>, routine_builder |-> <<>>,
    advisor_kg |-> <<>>, advisor |-> <<>>, created |-> 0 ]

NumCalls == Len(KBIngredients) + Len(KBInteractions)

Init ==
  /\ ingredients = <<>>
  /\ alias_index = <<>>
  /\ interactions = <<>>
  /\ graph = EmptyGraph
  /\ phase = "building"
  /\ built = 0
  /\ call = [op |-> "__init__", args |-> <<>>, ret |-> <<>>]
  /\ advisor = <<>>
  /\ api = ApiInit

CreateAddIngredient ==
  /\ phase = "building"
  /\ built < Len(KBIngredients)
  /\ add_ingredient(KBIngredients[built + 1])
  /\ built' = built + 1
  /\ phase' = phase
  /\ call' = [op |-> "add_ingredient", args |-> <<KBIngredients[built + 1]>>, ret |-> <<>>]
  /\ UNCHANGED appvars

CreateAddInteraction ==
  /\ phase = "building"
  /\ built >= Len(KBIngredients)
  /\ built < NumCalls
  /\ add_interaction(KBInteractions[built - Len(KBIngredients) + 1])
  /\ built' = built + 1
  /\ phase' = IF built + 1 = NumCalls THEN "serving" ELSE "building"
  /\ call' = [op |-> "add_interaction",
              args |-> <<KBInteractions[built - Len(KBIngredients) + 1]>>, ret |-> <<>>]
  /\ UNCHANGED appvars

(***************************************************************************)
(* A graph built by hand: any add_ingredient / add_interaction calls, in   *)
(* any order, with arguments from a small pool.  The pool has two catalog  *)
(* ingredients, an ingredient whose id is an alias of one of them, and     *)
(* interactions that repeat a pair in both orders with different kinds.    *)
(***************************************************************************)
Retinol == KBIngredients[1]

GlycolicAcid == KBIngredients[2]

AhaBlend ==
  [ id |-> <<"a","h","a">>,
    name |-> <<"A","H","A"," ","B","l","e","n","d">>,
    category |-> "AHA",
    aliases |-> << <<"f","r","u","i","t"," ","a","c","i","d">> >>,
    optimal_ph |-> <<30, 40>>,
    time_of_day |-> "PM_ONLY", application_order |-> 4,
    addresses_concerns |-> <<"TEXTURE">>,
    caution_skin_types |-> <<"SENSITIVE">>,
    beginner_friendly |-> TRUE ]

LibIngredients == {Retinol, GlycolicAcid, AhaBlend}

LibInteractions ==
  { KBInteractions[22],
    [ ingredient_a |-> GlycolicAcid.id, ingredient_b |-> Retinol.id,
      interaction_type |-> "CAUTION", severity |-> 5,
      explanation |-> "Alternate nights.", recommendation |-> "",
      wait_minutes |-> <<>> ],
    [ ingredient_a |-> Retinol.id, ingredient_b |-> AhaBlend.id,
      interaction_type |-> "INCREASES_SENSITIVITY", severity |-> 6,
      explanation |-> "More irritation together.", recommendation |-> "Use sunscreen.",
      wait_minutes |-> <<>> ],
    [ ingredient_a |-> AhaBlend.id, ingredient_b |-> Retinol.id,
      interaction_type |-> "REQUIRES_WAITING", severity |-> 3,
      explanation |-> "", recommendation |-> "Let the acid absorb first.",
      wait_minutes |-> <<20>> ] }

QueryOps ==
  { "get_ingredient", "find_ingredient", "get_interaction", "get_all_interactions",
    "check_compatibility", "get_recommended_ingredients", "explain_interaction",
    "ask", "build_routine", "POST /ingredients/check", "POST /routines/build" }

\* single-threaded and synchronous: a call starts when the previous one has
\* returned
Idle == call.op \notin QueryOps

InitLib ==
  /\ ingredients = <<>>
  /\ alias_index = <<>>
  /\ interactions = <<>>
  /\ graph = EmptyGraph
  /\ phase = "library"
  /\ built = 0
  /\ call = [op |-> "__init__", args |-> <<>>, ret |-> <<>>]
  /\ advisor = <<>>
  /\ api = ApiInit

LibAddIngredient ==
  /\ phase = "library"
  /\ Idle
  /\ built < MaxAdds
  /\ \E ingredient \in LibIngredients :
       /\ add_ingredient(ingredient)
       /\ call' = [op |-> "add_ingredient", args |-> <<ingredient>>, ret |-> <<>>]
  /\ built' = built + 1
  /\ phase' = phase
  /\ UNCHANGED appvars

LibAddInteraction ==
  /\ phase = "library"
  /\ Idle
  /\ built < MaxAdds
  /\ \E interaction \in LibInteractions :
       /\ add_interaction(interaction)
       /\ call' = [op |-> "add_interaction", args |-> <<interaction>>, ret |-> <<>>]
  /\ built' = built + 1
  /\ phase' = phase
  /\ UNCHANGED appvars

(***************************************************************************)
(* The arguments the queries are called with.                              *)
(***************************************************************************)
SeqsUpTo(S, n) == UNION {[1..k -> S] : k \in 0..n}

Unicorn == <<"u","n","i","c","o","r","n">>

\* every id, display name and alias of the catalog
KBKeys ==
  UNION { {KBIngredients[i].id, KBIngredients[i].name} \cup Range(KBIngredients[i].aliases)
          : i \in 1..Len(KBIngredients) }

KBIds == {KBIngredients[i].id : i \in 1..Len(KBIngredients)}

CaseVariants(s) == {s, Lower(s), Upper(s), Alternating(s)}

\* identifiers for the one-argument lookups
LookupIdentifiers ==
  IF phase # "serving"
  THEN {Retinol.id, Retinol.name, GlycolicAcid.id, AhaBlend.id, Unicorn}
  ELSE UNION {CaseVariants(k) : k \in KBKeys} \cup {Unicorn, <<>>}

\* identifiers for the two-argument lookups
PairIdentifiers ==
  IF phase # "serving"
  THEN {Retinol.id, Retinol.name, GlycolicAcid.id, AhaBlend.id, Unicorn}
  ELSE KBIds \cup {Retinol.name, Upper(AhaBlend.id), Unicorn, <<>>}

\* identifiers for the lists given to check_compatibility
ListIdentifiers ==
  IF phase # "serving"
  THEN {Retinol.id, GlycolicAcid.id, AhaBlend.id, Unicorn}
  ELSE { Retinol.id, Retinol.name, GlycolicAcid.id, Upper(AhaBlend.id),
         KBIngredients[5].id, KBIngredients[7].id, KBIngredients[8].id,
         KBIngredients[9].id, Unicorn }

SkinTypes == {"DRY", "OILY", "COMBINATION", "SENSITIVE", "NORMAL"}

SkinConcerns ==
  { "ACNE", "AGING", "HYPERPIGMENTATION", "DRYNESS", "OILINESS", "SENSITIVITY",
    "DULLNESS", "TEXTURE", "REDNESS", "DARK_CIRCLES", "PORES" }

Profiles ==
  IF phase # "serving"
  THEN [ skin_type : {"SENSITIVE", "OILY"},
         concerns : SeqsUpTo({"AGING", "DULLNESS"}, MaxConcerns),
         sensitivities : {<<>>, <<Retinol.id>>} ]
  ELSE [ skin_type : SkinTypes,
         concerns : SeqsUpTo(SkinConcerns, MaxConcerns),
         sensitivities : { <<>>, <<Retinol.id>>, <<Retinol.name>>,
                           <<KBIngredients[7].id, KBIngredients[4].id>> } ]

(***************************************************************************)
(* The queries.  None of them assigns to the graph.                        *)
(***************************************************************************)
Serving == phase # "building" /\ Idle

\* the result is handed to the caller
Return ==
  /\ call.op \in QueryOps
  /\ call' = [op |-> "return", args |-> <<>>, ret |-> <<>>]
  /\ UNCHANGED <<kgvars, phase, built, appvars>>

\* variant: a lookup that resolves is remembered under the identifier given
GetIngredientCaching ==
  /\ Serving
  /\ \E identifier \in LookupIdentifiers :
       /\ call' = [ op |-> "get_ingredient", args |-> <<identifier>>,
                    ret |-> get_ingredient(identifier) ]
       /\ alias_index' =
            IF get_ingredient(identifier) # <<>>
            THEN IndexSet(alias_index, identifier, get_ingredient(identifier)[1].id)
            ELSE alias_index
  /\ UNCHANGED <<ingredients, interactions, graph, phase, built, appvars>>

GetIngredient ==
  /\ Serving
  /\ \E identifier \in LookupIdentifiers :
       call' = [ op |-> "get_ingredient", args |-> <<identifier>>,
                 ret |-> get_ingredient(identifier) ]
  /\ UNCHANGED <<kgvars, phase, built, appvars>>

GetInteraction ==
  /\ Serving
  /\ \E ingredient_a \in PairIdentifiers, ingredient_b \in PairIdentifiers :
       call' = [ op |-> "get_interaction", args |-> <<ingredient_a, ingredient_b>>,
                 ret |-> get_interaction(ingredient_a, ingredient_b) ]
  /\ UNCHANGED <<kgvars, phase, built, appvars>>

GetAllInteractions ==
  /\ Serving
  /\ \E ingredient_id \in PairIdentifiers :
       call' = [ op |-> "get_all_interactions", args |-> <<ingredient_id>>,
                 ret |-> get_all_interactions(ingredient_id) ]
  /\ UNCHANGED <<kgvars, phase, built, appvars>>

CheckCompatibility ==
  /\ Serving
  /\ \E ingredient_ids \in SeqsUpTo(ListIdentifiers, MaxList) :
       call' = [ op |-> "check_compatibility", args |-> <<ingredient_ids>>,
                 ret |-> check_compatibility(ingredient_ids) ]
  /\ UNCHANGED <<kgvars, phase, built, appvars>>

GetRecommendedIngredients ==
  /\ Serving
  /\ \E profile \in Profiles :
       call' = [ op |-> "get_recommended_ingredients", args |-> <<profile>>,
                 ret |-> get_recommended_ingredients(profile) ]
  /\ UNCHANGED <<kgvars, phase, built, appvars>>

ExplainInteraction ==
  /\ Serving
  /\ \E ingredient_a \in PairIdentifiers, ingredient_b \in PairIdentifiers :
       call' = [ op |-> "explain_interaction", args |-> <<ingredient_a, ingredient_b>>,
                 ret |-> explain_interaction(ingredient_a, ingredient_b) ]
  /\ UNCHANGED <<kgvars, phase, built, appvars>>

\* search terms given to find_ingredient
SearchTerms ==
  IF phase # "serving"
  THEN {<<"r","e","t">>, <<"A","H","A">>, Unicorn}
  ELSE {<<"r","e","t">>, <<"A","C","I","D">>, <<"v","i","t","a","m","i","n"," ","a">>, <<"B","l","e","n","d">>, <<"c">>, Unicorn, <<>>}

FindIngredient ==
  /\ Serving
  /\ \E search_term \in SearchTerms :
       call' = [ op |-> "find_ingredient", args |-> <<search_term>>,
                 ret |-> find_ingredient(search_term) ]
  /\ UNCHANGED <<kgvars, phase, built, appvars>>

(***************************************************************************)
(* The advisor made on the built graph, and the questions put to it.       *)
(***************************************************************************)
\* self.client after __init__: None without an API key or without the
\* anthropic package, an Anthropic client otherwise
Clients == {"None", "Anthropic"}

\* SkincareAdvisor(knowledge_graph)
CreateAdvisor ==
  /\ phase = "serving"
  /\ Idle
  /\ advisor = <<>>
  /\ \E client \in Clients : advisor' = <<[client |-> client]>>
  /\ phase' = "advising"
  /\ call' = [op |-> "SkincareAdvisor", args |-> <<>>, ret |-> <<>>]
  /\ UNCHANGED <<kgvars, built, api>>

Questions ==
  { <<"C","a","n"," ","I"," ","u","s","e"," ","r","e","t","i","n","o","l"," ","w","i","t","h"," ","v","i","t","a","m","i","n"," ","C","?">>,
    <<"W","h","a","t"," ","i","s"," ","n","i","a","c","i","n","a","m","i","d","e","?">>,
    <<"h","e","l","l","o">>,
    <<"C","a","n"," ","I"," ","m","i","x"," ","t","h","e","m","?">>,
    <<"I"," ","n","e","e","d"," ","h","e","l","p"," ","f","o","r"," ","d","r","y"," ","s","k","i","n">>,
    <<"T","e","l","l"," ","m","e"," ","a","b","o","u","t"," ","n","i","a","c","i","n","a","m","i","d","e">>,
    <<"I","s"," ","A","H","A"," ","a","n"," ","a","l","p","h","a"," ","h","y","d","r","o","x","y"," ","a","c","i","d","?">>,
    <<"I","s"," ","A","H","A"," ","o","k","?">>,
    <<"C","a","n"," ","I"," ","u","s","e"," ","r","e","t","i","n","o","l"," ","w","i","t","h"," ","g","l","y","c","o","l","i","c"," ","a","c","i","d","?">>,
    <<"r","e","t","i","n","o","l"," ","a","n","d"," ","s","a","l","i","c","y","l","i","c"," ","a","c","i","d">>,
    <<"n","i","a","c","i","n","a","m","i","d","e"," ","a","n","d"," ","h","y","a","l","u","r","o","n","i","c"," ","a","c","i","d">>,
    <<"M","i","x"," ","r","e","t","i","n","o","l",","," ","g","l","y","c","o","l","i","c"," ","a","c","i","d"," ","a","n","d"," ","n","i","a","c","i","n","a","m","i","d","e">>,
    <<"b","e","n","z","o","y","l"," ","p","e","r","o","x","i","d","e"," ","a","n","d"," ","r","e","t","i","n","o","l">>,
    <<"v","i","t","a","m","i","n"," ","c",","," ","n","i","a","c","i","n","a","m","i","d","e",","," ","h","y","a","l","u","r","o","n","i","c"," ","a","c","i","d"," ","f","o","r"," ","d","u","l","l"," ","o","i","l","y"," ","s","k","i","n">>,
    <<"p","a","n","t","h","e","n","o","l">>,
    <<"W","h","a","t"," ","d","o","e","s"," ","r","e","t","i","n","o","l"," ","d","o"," ","w","i","t","h"," ","a","c","n","e","?">>,
    <<"h","y","a","l","u","r","o","n","i","c"," ","a","c","i","d",","," ","a","l","p","h","a"," ","a","r","b","u","t","i","n",","," ","a","l","p","h","a","-","a","r","b","u","t","i","n">>,
    <<"R","e","c","o","m","m","e","n","d"," ","a"," ","r","o","u","t","i","n","e"," ","f","i","r","s","t">> }

\* the optional profile sent along with a question
AskProfiles ==
  { <<>>,
    << [skin_type |-> "OILY", concerns |-> <<"ACNE">>, sensitivities |-> <<>>] >> }

\* the orders in which a set can be iterated
Orderings(S) == {s \in [1..Cardinality(S) -> S] : Range(s) = S}

\* what a call of self.client.messages.create can do
Outcomes == {"answers", "raises"}

\* variant: every result is typed general
ask_untyped(question, profile, ids, concerns, outcome) ==
  LET full_context == build_knowledge_context(ids) \o get_concern_context(concerns)
      result == IF advisor[1].client # "None"
                THEN generate_llm_response(question, full_context, ids, profile, outcome)
                ELSE generate_rule_response(question, full_context, ids)
  IN  [result EXCEPT !.query_type = "general"]

\* ask, given the order of list(found), the order in which matched_concerns
\* is iterated and, when a client is configured, what its call does
ask(question, profile, ids, concerns, outcome) ==
  LET full_context == build_knowledge_context(ids) \o get_concern_context(concerns)
  IN  IF advisor[1].client # "None"
      THEN generate_llm_response(question, full_context, ids, profile, outcome)
      ELSE generate_rule_response(question, full_context, ids)

(***************************************************************************)
(* RoutineBuilder(kg).build_routine on the built graph.                    *)
(***************************************************************************)
\* the products of tests/test_skincare.py, two products of two ingredients
\* (one with the sunscreen) and a product whose ingredient is not in the
\* catalog
RoutineProducts ==
  { Product("Retinol Serum", <<KBIngredients[1].id>>),
    Product("Glycolic Toner", <<KBIngredients[2].id>>),
    Product("HA Serum", <<KBIngredients[8].id>>),
    Product("Vitamin C", <<KBIngredients[5].id>>),
    Product("Day Cream", <<KBIngredients[7].id, KBIngredients[13].id>>),
    Product("Night Cream", <<KBIngredients[7].id, KBIngredients[1].id>>),
    Product("Mystery Balm", <<Unicorn>>) }

RoutineTimes == {"AM", "PM"}

RoutineProfiles ==
  { <<>>, <<[skin_type |-> "OILY", concerns |-> <<"ACNE">>, sensitivities |-> <<>>]>> }

\* the choices the description leaves to the builder
BuilderChoices ==
  { [default_order |-> 1, max_suggestions |-> 3],
    [default_order |-> 10, max_suggestions |-> 5] }

RoutineBuilderBuildRoutine ==
  /\ Serving
  /\ \E products \in SeqsUpTo(RoutineProducts, MaxProducts),
        time \in RoutineTimes, profile \in RoutineProfiles, impl \in BuilderChoices :
       call' = [ op |-> "build_routine", args |-> <<products, time, profile>>,
                 ret |-> build_routine(products, time, profile, impl) ]
  /\ UNCHANGED <<kgvars, phase, built, appvars>>

(***************************************************************************)
(* Requests to the two POST handlers, served from the built graph.         *)
(***************************************************************************)
\* ingredient strings as a client sends them: ids, a display name (in a
\* product), an alias in capitals, and a string that is not in the catalog
RequestNames ==
  { KBIngredients[1].id, Upper(AhaBlend.id), KBIngredients[5].id,
    KBIngredients[7].id, KBIngredients[9].id, Unicorn }

RequestProducts ==
  { Product("Retinol Serum", <<KBIngredients[1].name>>),
    Product("Glycolic Toner", <<Upper(AhaBlend.id)>>),
    Product("Vitamin C", <<KBIngredients[5].id>>),
    Product("Day Cream", <<KBIngredients[7].id, KBIngredients[13].id>>),
    Product("Mystery Balm", <<KBIngredients[8].id, Unicorn>>),
    Product("Empty Jar", <<>>) }

RequestProfiles == {<<>>, <<[skin_type |-> "NORMAL", concerns |-> <<"AGING">>]>>}

PostCheckCompatibility ==
  /\ Serving
  /\ \E names \in SeqsUpTo(RequestNames, MaxList) :
       LET response == api_check_compatibility(names)
       IN  call' = [ op |-> "POST /ingredients/check", args |-> <<names>>,
                     ret |-> [ status |-> response.status, detail |-> response.detail,
                               body |-> response.body ],
                     core |-> response.core ]
  /\ UNCHANGED <<kgvars, phase, built, appvars>>

PostBuildRoutine ==
  /\ Serving
  /\ \E products \in SeqsUpTo(RequestProducts, MaxProducts),
        time \in {"am", "pm"}, profile \in RequestProfiles, impl \in BuilderChoices :
       LET response == api_build_routine(products, time, profile, impl)
       IN  call' = [ op |-> "POST /routines/build", args |-> <<products, time, profile>>,
                     ret |-> [ status |-> response.status, detail |-> response.detail,
                               body |-> response.body ],
                     core |-> response.core ]
  /\ UNCHANGED <<kgvars, phase, built, appvars>>

Ask ==
  /\ phase = "advising"
  /\ Idle
  /\ \E question \in Questions, profile \in AskProfiles :
       \E ids \in Orderings(extract_ingredients(question)),
          concerns \in Orderings(matched_concerns(question)),
          outcome \in (IF advisor[1].client # "None" THEN Outcomes ELSE {"not called"}) :
         call' = [ op |-> "ask", args |-> <<question, profile>>,
                   ret |-> ask(question, profile, ids, concerns, outcome),
                   ingredients |-> ids,
                   context |-> build_knowledge_context(ids) \o get_concern_context(concerns),
                   llm |-> outcome ]
  /\ UNCHANGED <<kgvars, phase, built, appvars>>

Query ==
  \/ GetIngredient
  \/ FindIngredient
  \/ GetInteraction
  \/ GetAllInteractions
  \/ CheckCompatibility
  \/ GetRecommendedIngredients
  \/ ExplainInteraction

(***************************************************************************)
(* Spec: the application; the catalog is built, then queried, and an       *)
(* advisor made on it is asked questions.                                  *)
(* SpecLib: the class used as a library on a graph built by hand.          *)
(***************************************************************************)
Next ==
  \/ CreateAddIngredient
  \/ CreateAddInteraction
  \/ Query
  \/ CreateAdvisor
  \/ Ask
  \/ Return

Spec == Init /\ [][Next]_vars

NextLib ==
  \/ LibAddIngredient
  \/ LibAddInteraction
  \/ Query
  \/ Return

SpecLib == InitLib /\ [][NextLib]_vars
(***************************************************************************)
(* The API routers (app/api/v1).  Each of ingredients.py, routines.py and  *)
(* advisor.py has its own module-level _knowledge_graph, filled by its own *)
(* get_knowledge_graph on first use; routines.py and advisor.py also keep  *)
(* a _routine_builder and an _advisor.  An object is known by the number   *)
(* of the create_skincare_knowledge_base run that returned its graph; the  *)
(* handlers are coroutines without an await, so requests run one by one.   *)
(***************************************************************************)
\* get_knowledge_graph of the module whose global is the given field
get_knowledge_graph(a, field) ==
  IF a[field] = <<>>
  THEN [a EXCEPT ![field] = <<a.created + 1>>, !.created = a.created + 1]
  ELSE a

NextRoutines ==
  \/ CreateAddIngredient
  \/ CreateAddInteraction
  \/ RoutineBuilderBuildRoutine
  \/ PostCheckCompatibility
  \/ PostBuildRoutine
  \/ Return

\* SpecRoutines: the catalog is built, then routines are built on it, by the
\* builder itself and through the two POST handlers
SpecRoutines == Init /\ [][NextRoutines]_vars

\* get_routine_builder of routines.py
get_routine_builder(a) ==
  IF a.routine_builder = <<>>
  THEN LET b == get_knowledge_graph(a, "routines_kg")
       IN  [b EXCEPT !.routine_builder = <<[kg |-> b.routines_kg[1]]>>]
  ELSE a

\* get_advisor of advisor.py; the advisor makes a RoutineBuilder of its own
get_advisor(a) ==
  IF a.advisor = <<>>
  THEN LET b == get_knowledge_graph(a, "advisor_kg")
       IN  [b EXCEPT !.advisor = <<[ kg |-> b.advisor_kg[1],
                                     routine_builder |-> [kg |-> b.advisor_kg[1]] ]>>]
  ELSE a

\* kg.get_ingredient(identifier) is not None, on a graph as
\* create_skincare_knowledge_base returns it
CatalogResolves(identifier) ==
  \/ identifier \in KBIds
  \/ \E k \in KBKeys : Lower(k) = Lower(identifier)

\* the first name of the list that does not resolve raises HTTP 400
AllResolve(names) == \A i \in 1..Len(names) : CatalogResolves(names[i])

InitApi ==
  /\ ingredients = <<>>
  /\ alias_index = <<>>
  /\ interactions = <<>>
  /\ graph = EmptyGraph
  /\ phase = "api"
  /\ built = 0
  /\ call = [op |-> "import", args |-> <<>>, ret |-> <<>>]
  /\ advisor = <<>>
  /\ api = ApiInit

ApiIdentifiers == {Retinol.id, Upper(AhaBlend.id), Unicorn}

ApiLists ==
  { <<Retinol.id, GlycolicAcid.id>>, <<Retinol.name, Unicorn>>, <<Unicorn, Retinol.id>> }

ApiQuestions == {<<"C","a","n"," ","I"," ","u","s","e"," ","r","e","t","i","n","o","l"," ","w","i","t","h"," ","v","i","t","a","m","i","n"," ","C","?">>, <<"h","e","l","l","o">>}

\* GET /ingredients/
ListIngredients ==
  /\ phase = "api"
  /\ LET a == get_knowledge_graph(api, "ingredients_kg")
     IN  /\ api' = a
         /\ call' = [ op |-> "list_ingredients", args |-> <<>>,
                      ret |-> [status |-> 200, kg |-> a.ingredients_kg] ]
  /\ UNCHANGED <<kgvars, phase, built, advisor>>

\* GET /ingredients/{ingredient_id}
ApiGetIngredient ==
  /\ phase = "api"
  /\ \E ingredient_id \in ApiIdentifiers :
       LET a == get_knowledge_graph(api, "ingredients_kg")
       IN  /\ api' = a
           /\ call' = [ op |-> "api.get_ingredient", args |-> <<ingredient_id>>,
                        ret |-> [ status |-> IF CatalogResolves(ingredient_id)
                                             THEN 200 ELSE 404,
                                  kg |-> a.ingredients_kg ] ]
  /\ UNCHANGED <<kgvars, phase, built, advisor>>

\* POST /ingredients/check
ApiCheckCompatibility ==
  /\ phase = "api"
  /\ \E names \in ApiLists :
       LET a == get_knowledge_graph(api, "ingredients_kg")
       IN  /\ api' = a
           /\ call' = [ op |-> "api.check_compatibility", args |-> <<names>>,
                        ret |-> [ status |-> IF AllResolve(names) THEN 200 ELSE 400,
                                  kg |-> a.ingredients_kg ] ]
  /\ UNCHANGED <<kgvars, phase, built, advisor>>

\* POST /routines/build: the builder, then the module's graph for the names
BuildRoutine ==
  /\ phase = "api"
  /\ \E names \in ApiLists :
       LET a == get_knowledge_graph(get_routine_builder(api), "routines_kg")
       IN  /\ api' = a
           /\ call' = [ op |-> "api.build_routine", args |-> <<names>>,
                        ret |-> [ status |-> IF AllResolve(names) THEN 200 ELSE 400,
                                  kg |-> a.routines_kg,
                                  builder_kg |-> <<a.routine_builder[1].kg>> ] ]
  /\ UNCHANGED <<kgvars, phase, built, advisor>>

\* POST /routines/suggest: a fixed message, no graph
SuggestRoutine ==
  /\ phase = "api"
  /\ call' = [ op |-> "suggest_routine", args |-> <<>>,
               ret |-> [status |-> 200, kg |-> <<>>] ]
  /\ UNCHANGED <<kgvars, phase, built, advisor, api>>

\* POST /advisor/ask
AskAdvisor ==
  /\ phase = "api"
  /\ \E question \in ApiQuestions :
       LET a == get_advisor(api)
       IN  /\ api' = a
           /\ call' = [ op |-> "ask_advisor", args |-> <<question>>,
                        ret |-> [status |-> 200, kg |-> <<a.advisor[1].kg>>] ]
  /\ UNCHANGED <<kgvars, phase, built, advisor>>

\* GET /advisor/example-questions: a fixed answer, no graph
GetExampleQuestions ==
  /\ phase = "api"
  /\ call' = [ op |-> "get_example_questions", args |-> <<>>,
               ret |-> [status |-> 200, kg |-> <<>>] ]
  /\ UNCHANGED <<kgvars, phase, built, advisor, api>>

NextApi ==
  \/ ListIngredients
  \/ ApiGetIngredient
  \/ ApiCheckCompatibility
  \/ BuildRoutine
  \/ SuggestRoutine
  \/ AskAdvisor
  \/ GetExampleQuestions

\* SpecApi: one server process and the requests it handles
SpecApi == InitApi /\ [][NextApi]_vars

(***************************************************************************)
(* Notions the properties are stated in.                                   *)
(***************************************************************************)
\* the ids of the entries of a list that resolve in the catalog, in order
RECURSIVE ResolvedIds(_)
ResolvedIds(ids) ==
  IF ids = <<>> THEN <<>>
  ELSE LET found == get_ingredient(Head(ids))
       IN  (IF found = <<>> THEN <<>> ELSE <<found[1].id>>) \o ResolvedIds(Tail(ids))

\* the record stored for an unordered pair of ids
HasRecord(a, b) == {a, b} \in DOMAIN graph.edge

RecordOf(a, b) == graph.edge[{a, b}].interaction

\* the pairs of positions of a list of ids whose ingredients have a record
\* of one of the given kinds
PairsOfKind(ids, kinds) ==
  { p \in (1..Len(ids)) \X (1..Len(ids)) :
      /\ p[1] < p[2]
      /\ HasRecord(ids[p[1]], ids[p[2]])
      /\ RecordOf(ids[p[1]], ids[p[2]]).interaction_type \in kinds }

NameOf(id) == IngredientAt(ingredients, id).name

\* same string up to the case of its letters
SameLetters(s, t) ==
  /\ Len(s) = Len(t)
  /\ \A i \in 1..Len(s) : LowerChar(s[i]) = LowerChar(t[i])

KeysOf(ingredient) ==
  {ingredient.id, ingredient.name} \cup Range(ingredient.aliases)

(***************************************************************************)
(* C1.  check_compatibility returns is_compatible = false if and only if   *)
(* two resolved entries of the input list have a recorded interaction of   *)
(* kind CONFLICTS or DEACTIVATES, and exactly when the conflicts bucket of *)
(* the report is not empty.                                                *)
(***************************************************************************)
C1_IncompatibleIffConflict ==
  call.op = "check_compatibility" =>
    LET ids == ResolvedIds(call.args[1])
        blocked == PairsOfKind(ids, {"CONFLICTS", "DEACTIVATES"}) # {}
    IN  /\ (call.ret.is_compatible = FALSE) <=> blocked
        /\ (call.ret.is_compatible = FALSE) <=> (call.ret.conflicts # <<>>)

\* a list with an alias, an unknown entry and a deactivating pair is rejected
C1_Witness ==
  /\ call.op = "check_compatibility"
  /\ call.ret.is_compatible = FALSE
  /\ LET ids == ResolvedIds(call.args[1])
     IN  /\ Len(ids) < Len(call.args[1])
         /\ PairsOfKind(ids, {"DEACTIVATES"}) # {}
         /\ PairsOfKind(ids, {"CONFLICTS"}) = {}

(***************************************************************************)
(* C2.  In the catalog built by create_skincare_knowledge_base, the id,    *)
(* the display name and every alias of an ingredient X, in any letter      *)
(* case, make get_ingredient return X.                                     *)
(***************************************************************************)
C2_ResolveAnyCase ==
  (call.op = "get_ingredient" /\ phase = "serving") =>
    \A i \in 1..Len(ingredients) :
      (\E k \in KeysOf(ingredients[i]) : SameLetters(call.args[1], k))
        => call.ret = <<ingredients[i]>>

\* an alias given in upper case resolves to its ingredient
C2_Witness ==
  /\ call.op = "get_ingredient"
  /\ phase = "serving"
  /\ call.args[1] = <<"V","I","T","A","M","I","N"," ","A">>
  /\ call.ret = <<Retinol>>

(***************************************************************************)
(* C3.  After any add_interaction calls, get_interaction(a, b) and         *)
(* get_interaction(b, a) return the same record, or both return none.      *)
(***************************************************************************)
C3_InteractionSymmetric ==
  \A a \in PairIdentifiers, b \in PairIdentifiers :
    get_interaction(a, b) = get_interaction(b, a)

\* a record is found when asked for in the order opposite to the one it was
\* added in
C3_Witness ==
  /\ call.op = "get_interaction"
  /\ call.ret # <<>>
  /\ call.args[1] # call.args[2]
  /\ call.ret[1].ingredient_a = call.args[2]
  /\ call.ret[1].ingredient_b = call.args[1]
(***************************************************************************)
(* C4.  As claimed: check_compatibility returns the same report            *)
(* (is_compatible and the contents of the four buckets) for every          *)
(* permutation of its input list.                                          *)
(***************************************************************************)
Reorderings(s) ==
  { [i \in 1..Len(s) |-> s[f[i]]] : f \in Permutations(1..Len(s)) }

C4_SameReportInEveryOrder ==
  call.op = "check_compatibility" =>
    \A p \in Reorderings(call.args[1]) : check_compatibility(p) = call.ret

\* a bucket entry without the order of its two names
UnorderedEntry(e) ==
  [ names |-> {e.ingredient_a, e.ingredient_b}, explanation |-> e.explanation,
    recommendation |-> e.recommendation, severity |-> e.severity ]

UnorderedWait(e) ==
  [ names |-> {e.ingredient_a, e.ingredient_b}, explanation |-> e.explanation,
    recommendation |-> e.recommendation, severity |-> e.severity,
    wait_minutes |-> e.wait_minutes ]

Occurrences(s, x) == Cardinality({i \in 1..Len(s) : s[i] = x})

SameBag(s, t) ==
  /\ Len(s) = Len(t)
  /\ \A x \in Range(s) \cup Range(t) : Occurrences(s, x) = Occurrences(t, x)

UnorderedBucket(bucket) == [i \in 1..Len(bucket) |-> UnorderedEntry(bucket[i])]

UnorderedWaits(bucket) == [i \in 1..Len(bucket) |-> UnorderedWait(bucket[i])]

SameUpToOrder(r1, r2) ==
  /\ r1.is_compatible = r2.is_compatible
  /\ SameBag(UnorderedBucket(r1.conflicts), UnorderedBucket(r2.conflicts))
  /\ SameBag(UnorderedBucket(r1.cautions), UnorderedBucket(r2.cautions))
  /\ SameBag(UnorderedBucket(r1.synergies), UnorderedBucket(r2.synergies))
  /\ SameBag(UnorderedWaits(r1.wait_times), UnorderedWaits(r2.wait_times))

(***************************************************************************)
(* C4, amended.  For every permutation of its input list                   *)
(* check_compatibility returns the same is_compatible and, in each bucket, *)
(* the same entries up to the order of the entries and up to which of the  *)
(* two ingredients of an entry is named ingredient_a.                      *)
(***************************************************************************)
C4_SameReportUpToOrder ==
  call.op = "check_compatibility" =>
    \A p \in Reorderings(call.args[1]) :
      SameUpToOrder(check_compatibility(p), call.ret)

\* a conflict whose report differs between two orders of the same list
C4_Witness ==
  /\ call.op = "check_compatibility"
  /\ call.ret.conflicts # <<>>
  /\ \E p \in Reorderings(call.args[1]) : check_compatibility(p) # call.ret

(***************************************************************************)
(* C5.  As claimed: a repeated ingredient is not paired with itself and    *)
(* every interaction appears once, the report being that of the            *)
(* deduplicated list.                                                      *)
(***************************************************************************)
RECURSIVE Deduplicated(_)
Deduplicated(ids) ==
  IF ids = <<>> THEN <<>>
  ELSE LET front == Deduplicated(SubSeq(ids, 1, Len(ids) - 1))
           last == ids[Len(ids)]
       IN  IF last \in Range(front) THEN front ELSE Append(front, last)

C5_RepeatsReportedOnce ==
  call.op = "check_compatibility" =>
    call.ret = check_compatibility(Deduplicated(ResolvedIds(call.args[1])))

(***************************************************************************)
(* C6.  check_compatibility puts a recorded interaction of kind CAUTION in *)
(* cautions, SYNERGIZES in synergies and REQUIRES_WAITING in wait_times    *)
(* with its wait minutes; a pair without a record adds no entry and leaves *)
(* is_compatible alone, also when the pH ranges of the two ingredients are *)
(* more than 1.0 apart.                                                    *)
(***************************************************************************)
EntryFor(ids, p) ==
  LET record == RecordOf(ids[p[1]], ids[p[2]])
  IN  [ ingredient_a |-> NameOf(ids[p[1]]), ingredient_b |-> NameOf(ids[p[2]]),
        explanation |-> record.explanation, recommendation |-> record.recommendation,
        severity |-> record.severity ]

WaitEntryFor(ids, p) ==
  LET record == RecordOf(ids[p[1]], ids[p[2]])
  IN  [ ingredient_a |-> NameOf(ids[p[1]]), ingredient_b |-> NameOf(ids[p[2]]),
        explanation |-> record.explanation, recommendation |-> record.recommendation,
        severity |-> record.severity, wait_minutes |-> record.wait_minutes ]

\* both ranges declared and one ends more than 1.0 below the start of the other
PhApart(x, y) ==
  /\ x.optimal_ph # <<>>
  /\ y.optimal_ph # <<>>
  /\ \/ x.optimal_ph[2] + 10 < y.optimal_ph[1]
     \/ y.optimal_ph[2] + 10 < x.optimal_ph[1]

BucketedKinds ==
  {"CONFLICTS", "CAUTION", "SYNERGIZES", "REQUIRES_WAITING", "DEACTIVATES"}

C7_PhConflictIffApart ==
  call.op = "explain_interaction" =>
    LET a == get_ingredient(call.args[1])
        b == get_ingredient(call.args[2])
    IN  (a # <<>> /\ b # <<>> /\ ~HasRecord(a[1].id, b[1].id)) =>
          IF PhApart(a[1], b[1])
          THEN call.ret =
                 << Line("Potential pH conflict", <<a[1].name, b[1].name>>,
                         <<a[1].optimal_ph[1], a[1].optimal_ph[2],
                           b[1].optimal_ph[1], b[1].optimal_ph[2]>>, "") >>
          ELSE call.ret =
                 << Line("No known interaction. Generally safe to use together.",
                         <<a[1].name, b[1].name>>, <<>>, "") >>

\* the pH text is returned for a pair without a record
C7_Witness ==
  /\ call.op = "explain_interaction"
  /\ LET a == get_ingredient(call.args[1])
         b == get_ingredient(call.args[2])
     IN  a # <<>> /\ b # <<>> /\ ~HasRecord(a[1].id, b[1].id)
  /\ call.ret[1].tag = "Potential pH conflict"

(***************************************************************************)
(* C8.  As claimed: for every pair with a recorded interaction, whatever   *)
(* its kind, the text of explain_interaction starts with a header line     *)
(* that names both ingredients, followed by the explanation, the           *)
(* recommendation and the wait time when one is recorded.                  *)
(***************************************************************************)
C8_HeaderForEveryKind ==
  call.op = "explain_interaction" =>
    LET a == get_ingredient(call.args[1])
        b == get_ingredient(call.args[2])
    IN  (a # <<>> /\ b # <<>> /\ HasRecord(a[1].id, b[1].id)) =>
          /\ call.ret # <<>>
          /\ call.ret[1].names = <<a[1].name, b[1].name>>
          /\ LET record == RecordOf(a[1].id, b[1].id)
             IN  /\ record.explanation # "" =>
                      \E i \in 2..Len(call.ret) :
                        call.ret[i] = Line("Why", <<>>, <<>>, record.explanation)
                 /\ record.recommendation # "" =>
                      \E i \in 2..Len(call.ret) :
                        call.ret[i] = Line("Recommendation", <<>>, <<>>, record.recommendation)
                 /\ (record.wait_minutes # <<>> /\ record.wait_minutes # <<0>>) =>
                      call.ret[Len(call.ret)] = Line("Wait time", <<>>, record.wait_minutes, "")

(***************************************************************************)
(* C9.  As claimed: after any add_interaction calls the graph holds at     *)
(* most one record per unordered pair of ids; a second add_interaction for *)
(* the pair, in either order, replaces the first, so that the stored       *)
(* interaction collection and get_all_interactions expose only the last    *)
(* record added.                                                           *)
(***************************************************************************)
PairOf(record) == {record.ingredient_a, record.ingredient_b}

C9_OneRecordPerPair ==
  /\ \A i \in 1..Len(interactions), j \in 1..Len(interactions) :
       i < j => PairOf(interactions[i]) # PairOf(interactions[j])
  /\ \A i \in 1..Len(interactions) :
       LET all == get_all_interactions(interactions[i].ingredient_a)
       IN  \A k \in 1..Len(all), l \in 1..Len(all) :
             k < l => PairOf(all[k]) # PairOf(all[l])

(***************************************************************************)
(* C10.  get_recommended_ingredients(profile) returns a catalog ingredient *)
(* if and only if it addresses one of the profile's concerns, the          *)
(* profile's skin type is not among its caution skin types and its id is   *)
(* not among the profile's sensitivities; each such ingredient is returned *)
(* exactly once.                                                           *)
(***************************************************************************)
Qualifies(ingredient, profile) ==
  /\ Range(ingredient.addresses_concerns) \cap Range(profile.concerns) # {}
  /\ profile.skin_type \notin Range(ingredient.caution_skin_types)
  /\ ingredient.id \notin Range(profile.sensitivities)

C10_RecommendedIffQualifies ==
  call.op = "get_recommended_ingredients" =>
    LET profile == call.args[1]
    IN  /\ \A i \in 1..Len(ingredients) :
             Occurrences(call.ret, ingredients[i])
               = IF Qualifies(ingredients[i], profile) THEN 1 ELSE 0
        /\ \A i \in 1..Len(call.ret) :
             /\ call.ret[i] \in Range(ingredients)
             /\ profile.skin_type \notin Range(call.ret[i].caution_skin_types)

\* a sensitive profile gets recommendations, none of them retinol, which
\* addresses its concern but lists sensitive skin as a caution type
C10_Witness ==
  /\ call.op = "get_recommended_ingredients"
  /\ call.args[1].skin_type = "SENSITIVE"
  /\ call.args[1].sensitivities = <<>>
  /\ "AGING" \in Range(call.args[1].concerns)
  /\ call.ret # <<>>
  /\ Retinol \in Range(ingredients)
  /\ Retinol \notin Range(call.ret)

(***************************************************************************)
(* C11.  The list returned by get_recommended_ingredients is ordered by    *)
(* non-increasing number of the profile's concerns each ingredient         *)
(* addresses, and ingredients with equal counts keep their catalog         *)
(* insertion order.                                                        *)
(***************************************************************************)
\* the position of an ingredient in the ingredient table (0 when absent)
CatalogPosition(ingredient) ==
  IF \E i \in 1..Len(ingredients) : ingredients[i] = ingredient
  THEN CHOOSE i \in 1..Len(ingredients) : ingredients[i] = ingredient
  ELSE 0

C11_SortedByMatchesStable ==
  call.op = "get_recommended_ingredients" =>
    LET profile == call.args[1]
    IN  \A i \in 1..Len(call.ret), j \in 1..Len(call.ret) :
          i < j =>
            /\ ConcernMatches(call.ret[i], profile) >= ConcernMatches(call.ret[j], profile)
            /\ ConcernMatches(call.ret[i], profile) = ConcernMatches(call.ret[j], profile)
                 => CatalogPosition(call.ret[i]) < CatalogPosition(call.ret[j])

\* a result that has a tie between two ingredients and, further down, an
\* ingredient with a smaller count that comes earlier in the catalog
C11_Witness ==
  /\ call.op = "get_recommended_ingredients"
  /\ \E i \in 1..Len(call.ret), j \in 1..Len(call.ret) :
       /\ i < j
       /\ ConcernMatches(call.ret[i], call.args[1]) = ConcernMatches(call.ret[j], call.args[1])
  /\ \E i \in 1..Len(call.ret), j \in 1..Len(call.ret) :
       /\ i < j
       /\ ConcernMatches(call.ret[i], call.args[1]) > ConcernMatches(call.ret[j], call.args[1])
       /\ CatalogPosition(call.ret[i]) > CatalogPosition(call.ret[j])

(***************************************************************************)
(* C12.  ask never propagates a failure of the text-generation             *)
(* collaborator: when a client is configured and its call raises, ask      *)
(* returns exactly the result of the template path                         *)
(* (_generate_rule_response) for the same question, context and            *)
(* ingredients; when no client is configured the collaborator is never     *)
(* called and the template path is always used.                            *)
(***************************************************************************)
C12_FailureFallsBackToTemplate ==
  call.op = "ask" =>
    LET template == generate_rule_response(call.args[1], call.context, call.ingredients)
    IN  /\ (advisor[1].client = "None") <=> (call.llm = "not called")
        /\ call.llm = "raises" => call.ret = template
        /\ call.llm = "not called" => call.ret = template

\* the client raised on a question that mentions two ingredients, and the
\* caller got the template answer with its confidence of 0.8
C12_Witness ==
  /\ call.op = "ask"
  /\ advisor[1].client = "Anthropic"
  /\ call.llm = "raises"
  /\ Len(call.ingredients) >= 2
  /\ call.ret.confidence = 8
  /\ call.ret.answer.context # <<>>

(***************************************************************************)
(* C13.  On the template path the confidence of the answer is 0.5 (with    *)
(* the fixed help message) when no ingredient is mentioned and no concern  *)
(* keyword matches, 0.8 when two or more ingredients are mentioned, and    *)
(* 0.6 when zero or one ingredient is mentioned and some context exists.   *)
(***************************************************************************)
\* the call took the template path: no client, or the client's call raised
TemplatePath == call.op = "ask" /\ call.llm # "answers"

\* the statement as it stands
C13_ConfidenceAsStated ==
  TemplatePath =>
    LET n == Len(call.ingredients)
        keywords == matched_concerns(call.args[1])
    IN  /\ (n = 0 /\ keywords = {}) => (call.ret.confidence = 5 /\ call.ret = HelpResult)
        /\ n >= 2 => call.ret.confidence = 8
        /\ (n <= 1 /\ call.context # <<>>) => call.ret.confidence = 6

\* C13, as the code has it: 0.5 with the fixed help message when no
\* ingredient is mentioned and no concern keyword matches, 0.8 when one or
\* more ingredients are mentioned, 0.6 when no ingredient is mentioned and a
\* concern keyword matches.
C13_ConfidenceByMentions ==
  TemplatePath =>
    LET n == Len(call.ingredients)
        keywords == matched_concerns(call.args[1])
    IN  /\ (n = 0 /\ keywords = {}) => (call.ret.confidence = 5 /\ call.ret = HelpResult)
        /\ n >= 1 => call.ret.confidence = 8
        /\ (n = 0 /\ keywords # {}) => call.ret.confidence = 6

\* a question that mentions exactly one ingredient, answered from its
\* context at 0.8
C13_Witness ==
  /\ TemplatePath
  /\ Len(call.ingredients) = 1
  /\ call.context # <<>>
  /\ call.ret.confidence = 8

(***************************************************************************)
(* C14.  On the template path with two or more mentioned ingredients, the  *)
(* answer's framing is chosen by the worst non-empty bucket of             *)
(* check_compatibility over all mentioned ingredients, in the priority     *)
(* conflict, then caution, then synergy, then none: the conflict framing   *)
(* is used whenever any mentioned pair conflicts or deactivates, even if   *)
(* other pairs are cautions or synergies.                                  *)
(***************************************************************************)
\* some two of the mentioned ingredients have a record of one of the kinds
MentionedPairOfKind(ids, kinds) ==
  \E i \in 1..Len(ids), j \in 1..Len(ids) :
    /\ i # j
    /\ get_interaction(ids[i], ids[j]) # <<>>
    /\ get_interaction(ids[i], ids[j])[1].interaction_type \in kinds

C14_FramingByWorstBucket ==
  (TemplatePath /\ Len(call.ingredients) >= 2) =>
    LET compat == check_compatibility(call.ingredients)
        framing == call.ret.answer.framing
    IN  /\ (framing = "I'd be careful with this combination.")
             <=> compat.conflicts # <<>>
        /\ (framing = "These can be used together, but with some caution.")
             <=> (compat.conflicts = <<>> /\ compat.cautions # <<>>)
        /\ (framing = "Great news - these ingredients work well together!")
             <=> (compat.conflicts = <<>> /\ compat.cautions = <<>>
                    /\ compat.synergies # <<>>)
        /\ (framing = "These ingredients are generally safe to use together.")
             <=> (compat.conflicts = <<>> /\ compat.cautions = <<>>
                    /\ compat.synergies = <<>>)
        /\ MentionedPairOfKind(call.ingredients, {"CONFLICTS", "DEACTIVATES"})
             => framing = "I'd be careful with this combination."

\* three mentioned ingredients with a caution pair and a synergy pair get
\* the caution framing
C14_Witness ==
  /\ TemplatePath
  /\ Len(call.ingredients) = 3
  /\ MentionedPairOfKind(call.ingredients, {"CAUTION"})
  /\ MentionedPairOfKind(call.ingredients, {"SYNERGIZES"})
  /\ call.ret.answer.framing = "These can be used together, but with some caution."

(***************************************************************************)
(* C15.  For every question, ask returns exactly 3 pairwise distinct       *)
(* follow-up questions: at most 2 "when to use X" prompts derived from the *)
(* mentioned ingredients, and all remaining ones taken from the fixed pool *)
(* of generic prompts; the result depends only on the question and the     *)
(* mentioned ingredients.                                                  *)
(***************************************************************************)
IsWhenPrompt(p) == p.prompt = "When is the best time to use {ing.name}?"

IsPairPrompt(p) == p.prompt = "What ingredients pair well with {ing.name}?"

\* the fixed prompts: those of _get_follow_ups and those of the help message
GenericPool == Range(general_follow_ups) \cup Range(HelpResult.follow_up_questions)

\* the display names of the mentioned ids that resolve
MentionedNames(ids) ==
  { get_ingredient(ids[i])[1].name :
      i \in {i \in 1..Len(ids) : get_ingredient(ids[i]) # <<>>} }

HelpCase == TemplatePath /\ call.ingredients = <<>> /\ call.context = <<>>

CategoryOrder == <<"compatibility", "ingredient_info", "routine_help", "concern_advice">>

\* pat occurs in text at some offset
OccursIn(pat, text) ==
  \E at \in 0..(Len(text) - Len(pat)) :
    \A i \in 1..Len(pat) : text[at + i] = pat[i]

\* category c has a phrase that occurs in the lower-cased question
Matches(c, question) ==
  \E n \in 1..Len(classify_phrases) :
    /\ classify_phrases[n].query_type = CategoryOrder[c]
    /\ \E k \in 1..Len(classify_phrases[n].phrases) :
         OccursIn(classify_phrases[n].phrases[k], Lower(question))

C16_FirstMatchingCategory ==
  call.op = "ask" =>
    LET question == call.args[1]
        type == classify_query(question)
    IN  /\ type \in Range(CategoryOrder) \cup {"general"}
        /\ \A c \in 1..Len(CategoryOrder) :
             (type = CategoryOrder[c])
               <=> (Matches(c, question) /\ \A b \in 1..(c - 1) : ~Matches(b, question))
        /\ (type = "general") <=> \A c \in 1..Len(CategoryOrder) : ~Matches(c, question)

\* a question with a routine_help phrase and a concern_advice phrase is
\* classified as routine_help
C16_Witness ==
  /\ call.op = "ask"
  /\ Matches(3, call.args[1])
  /\ Matches(4, call.args[1])
  /\ classify_query(call.args[1]) = "routine_help"

(***************************************************************************)
(* C17.  For every question, the query_type of the result of ask equals    *)
(* the category _classify_query assigns to the question text (a "can I use *)
(* X with Y" question yields compatibility, a "what is X" question yields  *)
(* ingredient_info).                                                       *)
(***************************************************************************)
\* the statement as it stands
C17_TypeIsClassification ==
  call.op = "ask" => call.ret.query_type = classify_query(call.args[1])

\* C17, as the code has it: the query_type of the result of ask is general
\* when the fixed help message is returned (template path, no ingredient
\* mentioned, no concern keyword matched), whatever the question; in every
\* other case it is the category _classify_query assigns to the question.
C17_TypeIsClassificationUnlessHelp ==
  call.op = "ask" =>
    call.ret.query_type =
      IF HelpCase THEN "general" ELSE classify_query(call.args[1])

\* a question that mentions two ingredients and has a compatibility phrase
\* is typed compatibility
C17_Witness ==
  /\ call.op = "ask"
  /\ ~HelpCase
  /\ Len(call.ingredients) = 2
  /\ Matches(1, call.args[1])
  /\ call.ret.query_type = "compatibility"

(***************************************************************************)
(* C18.  In _extract_ingredients, aliases are tried longest first and a    *)
(* matched alias is removed from the search text, so a shorter alias that  *)
(* occurs in the question only inside an occurrence of a longer matched    *)
(* alias (for example "ha" inside "aha" or inside "alpha hydroxy acid")    *)
(* never adds a second ingredient id; for "Can I use retinol with          *)
(* vitamin C?" the result is exactly {retinol, vitamin_c}.                 *)
(***************************************************************************)
\* the offsets at which pat occurs in text
Offsets(pat, text) ==
  { at \in 0..(Len(text) - Len(pat)) : \A i \in 1..Len(pat) : text[at + i] = pat[i] }

\* alias entry k occurs in text, and each of its occurrences lies inside an
\* occurrence of a longer alias of the table
OnlyInsideLonger(k, text) ==
  LET short == ingredient_aliases[k].alias
  IN  /\ Offsets(short, text) # {}
      /\ \A at \in Offsets(short, text) :
           \E n \in 1..Len(ingredient_aliases) :
             LET long == ingredient_aliases[n].alias
             IN  /\ Len(long) > Len(short)
                 /\ \E bt \in Offsets(long, text) :
                      bt <= at /\ at + Len(short) <= bt + Len(long)

\* nothing else in text names the ingredient of alias entry k: its other
\* aliases occur only inside longer ones too, and no catalog name or id
\* that belongs to it occurs
NoOtherMention(k, text) ==
  /\ \A n \in 1..Len(ingredient_aliases) :
       (ingredient_aliases[n].id = ingredient_aliases[k].id
          /\ Offsets(ingredient_aliases[n].alias, text) # {})
         => OnlyInsideLonger(n, text)
  /\ \A i \in 1..Len(ingredients) :
       ingredients[i].id = ingredient_aliases[k].id =>
         /\ Offsets(Lower(ingredients[i].name), text) = {}
         /\ \A v \in 1..3 : Offsets(Variations(ingredients[i].id)[v], text) = {}

\* some longer alias of another ingredient covers an occurrence of entry k
InsideAliasOfAnother(k, text) ==
  \E n \in 1..Len(ingredient_aliases) :
    /\ ingredient_aliases[n].id # ingredient_aliases[k].id
    /\ Len(ingredient_aliases[n].alias) > Len(ingredient_aliases[k].alias)
    /\ \E at \in Offsets(ingredient_aliases[k].alias, text),
          bt \in Offsets(ingredient_aliases[n].alias, text) :
         bt <= at /\ at + Len(ingredient_aliases[k].alias)
                       <= bt + Len(ingredient_aliases[n].alias)

C18_CoveredAliasAddsNothing ==
  call.op = "ask" =>
    LET text == Lower(call.args[1])
    IN  /\ \A k \in 1..Len(ingredient_aliases) :
             (OnlyInsideLonger(k, text) /\ InsideAliasOfAnother(k, text)
                /\ NoOtherMention(k, text))
               => ingredient_aliases[k].id \notin Range(call.ingredients)
        /\ call.args[1] = <<"C","a","n"," ","I"," ","u","s","e"," ","r","e","t","i","n","o","l"," ","w","i","t","h"," ","v","i","t","a","m","i","n"," ","C","?">>
             => Range(call.ingredients) = {<<"r","e","t","i","n","o","l">>, <<"v","i","t","a","m","i","n","_","c">>}

(***************************************************************************)
(* C19.  Once the knowledge base is built, no query operation              *)
(* (get_ingredient, find_ingredient, get_interaction,                      *)
(* get_all_interactions, check_compatibility,                              *)
(* get_recommended_ingredients, explain_interaction, SkincareAdvisor.ask)  *)
(* changes the ingredient table, the alias index, the interaction          *)
(* collection or the graph: after any sequence or interleaving of such     *)
(* calls the catalog and graph equal their state right after construction. *)
(***************************************************************************)
C19_QueriesLeaveGraphUnchanged ==
  [][ (phase # "building" \/ call'.op \in QueryOps) => kgvars' = kgvars ]_vars

\* the advisor has answered a question on the built catalog: 26 ingredients,
\* 40 interaction records, the last of them still the last edge's record
C19_Witness ==
  /\ call.op = "ask"
  /\ call.ret.confidence = 8
  /\ ingredients = KBIngredients
  /\ interactions = KBInteractions
  /\ get_interaction(KBInteractions[Len(KBInteractions)].ingredient_a,
                     KBInteractions[Len(KBInteractions)].ingredient_b)
       = <<KBInteractions[Len(KBInteractions)]>>

(***************************************************************************)
(* C20.  Across any sequence of requests to the ingredients, routines and  *)
(* advisor endpoints of one process, the knowledge base is constructed     *)
(* (create_skincare_knowledge_base is run) at most once, and every         *)
(* handler, the routine builder and the advisor operate on that same graph *)
(* instance.                                                               *)
(***************************************************************************)
\* the graph instances held by the modules, the builder and the advisor
GraphsInUse ==
  Range(api.ingredients_kg) \cup Range(api.routines_kg) \cup Range(api.advisor_kg)
    \cup {api.routine_builder[i].kg : i \in 1..Len(api.routine_builder)}
    \cup {api.advisor[i].kg : i \in 1..Len(api.advisor)}
    \cup {api.advisor[i].routine_builder.kg : i \in 1..Len(api.advisor)}

C20_BuiltOnceAndShared ==
  /\ api.created <= 1
  /\ Cardinality(GraphsInUse) <= 1

(***************************************************************************)
(* C21.  No core lookup raises on an unknown identifier string: for a      *)
(* string that is neither an id, a name nor an alias, get_ingredient       *)
(* returns None, get_interaction returns None, get_all_interactions        *)
(* returns an empty list, check_compatibility reports as on the list       *)
(* without the unknown entries, and explain_interaction returns the        *)
(* not-found text.                                                         *)
(***************************************************************************)
\* no ingredient has s as its id, name or alias, in any case of the letters
Unknown(s) ==
  \A i \in 1..Len(ingredients) :
    \A k \in KeysOf(ingredients[i]) : ~SameLetters(s, k)

RECURSIVE WithoutUnknown(_)
WithoutUnknown(ids) ==
  IF ids = <<>> THEN <<>>
  ELSE (IF Unknown(Head(ids)) THEN <<>> ELSE <<Head(ids)>>) \o WithoutUnknown(Tail(ids))

C21_UnknownLookupsAreTotal ==
  /\ (call.op = "get_ingredient" /\ Unknown(call.args[1])) => call.ret = <<>>
  /\ (call.op = "get_interaction" /\ (Unknown(call.args[1]) \/ Unknown(call.args[2])))
       => call.ret = <<>>
  /\ (call.op = "get_all_interactions" /\ Unknown(call.args[1])) => call.ret = <<>>
  /\ call.op = "check_compatibility" =>
       /\ call.ret = check_compatibility(WithoutUnknown(call.args[1]))
       /\ DOMAIN call.ret = DOMAIN EmptyReport
  /\ (call.op = "explain_interaction" /\ (Unknown(call.args[1]) \/ Unknown(call.args[2])))
       => call.ret = <<Line("One or both ingredients not found in database.", <<>>, <<>>, "")>>

\* an unknown string between two ingredients that work well together
C21_Witness ==
  /\ call.op = "check_compatibility"
  /\ Len(call.args[1]) = 3
  /\ Unknown(call.args[1][2])
  /\ Len(WithoutUnknown(call.args[1])) = 2
  /\ call.ret.synergies # <<>>

(***************************************************************************)
(* C22.  For any list of products and either time of day, the is_valid of  *)
(* build_routine's analysis equals the is_compatible flag of               *)
(* check_compatibility over the deduplicated ingredient ids of all the     *)
(* products: the routine is invalid exactly when two of those ingredients  *)
(* have a CONFLICTS or DEACTIVATES record, in one product or in two.       *)
(***************************************************************************)
\* the catalog ids of the ingredients of all the products
IdsOfProducts(products) ==
  { get_ingredient(id)[1].id :
      id \in { x \in Range(FlattenIngredients(products)) : get_ingredient(x) # <<>> } }

BlockedPairs(ids) ==
  { p \in ids \X ids :
      /\ p[1] # p[2]
      /\ HasRecord(p[1], p[2])
      /\ RecordOf(p[1], p[2]).interaction_type \in {"CONFLICTS", "DEACTIVATES"} }

IsSpfEntry(m) == m = "SPF (Sunscreen)"

HasSpf(products) ==
  \E id \in IdsOfProducts(products) : IngredientAt(ingredients, id).category = "SPF"

C23_SpfFlaggedIffMissingInAm ==
  call.op = "build_routine" =>
    LET missing == call.ret.analysis.missing_essentials
        flagged == \E i \in 1..Len(missing) : IsSpfEntry(missing[i])
    IN  IF call.args[2] = "AM"
        THEN flagged <=> ~HasSpf(call.args[1])
        ELSE ~flagged

\* a morning routine whose sunscreen is the second ingredient of its last
\* product
C23_Witness ==
  /\ call.op = "build_routine"
  /\ call.args[2] = "AM"
  /\ Len(call.args[1]) = 2
  /\ ~HasSpf(<<call.args[1][1]>>)
  /\ HasSpf(<<call.args[1][2]>>)
  /\ call.ret.analysis.missing_essentials = <<>>

(***************************************************************************)
(* C24.  The steps returned by build_routine contain every input product   *)
(* exactly once (a product with an ingredient restricted to the other time *)
(* of day is annotated, not removed), ordered by non-decreasing minimum    *)
(* application_order over the product's resolved ingredients, with         *)
(* products of equal key kept in their input order.                        *)
(***************************************************************************)
\* the least application_order among the resolved ingredients of a product
\* that has one
HasKey(product) == IdsOfProducts(<<product>>) # {}

KeyOf(product) ==
  LET orders == { IngredientAt(ingredients, id).application_order :
                    id \in IdsOfProducts(<<product>>) }
  IN  CHOOSE x \in orders : \A y \in orders : x <= y

StepProduct(step) == Product(step.product_name, step.ingredients)

RECURSIVE WithKey(_, _)
\* the products of a list whose key is k, in the order of the list
WithKey(products, k) ==
  IF products = <<>> THEN <<>>
  ELSE (IF HasKey(Head(products)) /\ KeyOf(Head(products)) = k
        THEN <<Head(products)>> ELSE <<>>) \o WithKey(Tail(products), k)

RestrictedAt(product, time) ==
  \E id \in IdsOfProducts(<<product>>) :
    IngredientAt(ingredients, id).time_of_day
      = (IF time = "AM" THEN "PM_ONLY" ELSE "AM_ONLY")

C24_StepsAreProductsInKeyOrder ==
  call.op = "build_routine" =>
    LET products == call.args[1]
        steps == call.ret.routine.steps
        placed == [i \in 1..Len(steps) |-> StepProduct(steps[i])]
    IN  /\ SameBag(placed, products)
        /\ \A i \in 1..Len(steps) : steps[i].order = i
        /\ \A i, j \in 1..Len(placed) :
             (i < j /\ HasKey(placed[i]) /\ HasKey(placed[j]))
               => KeyOf(placed[i]) <= KeyOf(placed[j])
        /\ \A k \in 1..10 : WithKey(placed, k) = WithKey(products, k)
        /\ \A i \in 1..Len(placed) :
             RestrictedAt(placed[i], call.args[2]) => steps[i].notes # <<>>

\* a morning routine of three products given with the largest key first:
\* the steps are reordered, two different products share a key, and the
\* evening-only product is kept with a note
C24_Witness ==
  /\ call.op = "build_routine"
  /\ call.args[2] = "AM"
  /\ Len(call.args[1]) = 3
  /\ \A i \in 1..3 : HasKey(call.args[1][i])
  /\ KeyOf(call.args[1][1]) > KeyOf(call.args[1][2])
  /\ KeyOf(call.args[1][2]) = KeyOf(call.args[1][3])
  /\ call.args[1][2] # call.args[1][3]
  /\ RestrictedAt(call.args[1][1], "AM")
  /\ StepProduct(call.ret.routine.steps[3]) = call.args[1][1]
  /\ call.ret.routine.steps[3].notes # <<>>

(***************************************************************************)
(* C25.  A request to POST /ingredients/check or POST /routines/build that *)
(* passed the schema and holds an ingredient string the catalog does not   *)
(* resolve is answered 400, the detail naming the first such string (and   *)
(* its product), and the core was not called; no request with such a       *)
(* string is answered 200; when the core was called, the answer is 200 and *)
(* every identifier it was given is the id of a catalog ingredient, the    *)
(* one the string at that place resolves to.                               *)
(***************************************************************************)
\* the ingredient strings of a request, in the order the handler reads them
RequestStrings ==
  IF call.op = "POST /ingredients/check" THEN call.args[1]
  ELSE FlattenIngredients(call.args[1])

\* the identifiers the core was called with, in the same order
CoreIds ==
  IF call.op = "POST /ingredients/check" THEN call.core[1]
  ELSE FlattenIngredients(call.core[1])

PassedSchema ==
  IF call.op = "POST /ingredients/check" THEN Len(call.args[1]) >= 2
  ELSE /\ call.args[1] # <<>>
       /\ \A i \in 1..Len(call.args[1]) : call.args[1][i].ingredients # <<>>

Unresolved(strings) == {i \in 1..Len(strings) : get_ingredient(strings[i]) = <<>>}

C25_UnresolvedRejectedBeforeCore ==
  call.op \in {"POST /ingredients/check", "POST /routines/build"} =>
    /\ Unresolved(RequestStrings) # {} =>
         /\ call.ret.status # 200
         /\ call.core = <<>>
         /\ PassedSchema =>
              /\ call.ret.status = 400
              /\ call.ret.body = <<>>
              /\ \E i \in Unresolved(RequestStrings) :
                   /\ \A j \in Unresolved(RequestStrings) : i <= j
                   /\ call.ret.detail[1] = RequestStrings[i]
              /\ call.op = "POST /routines/build" =>
                   \E p \in 1..Len(call.args[1]) :
                     /\ call.ret.detail[2] = call.args[1][p].name
                     /\ Unresolved(call.args[1][p].ingredients) # {}
                     /\ \A q \in 1..(p - 1) :
                          Unresolved(call.args[1][q].ingredients) = {}
    /\ call.core # <<>> =>
         /\ call.ret.status = 200
         /\ Len(CoreIds) = Len(RequestStrings)
         /\ \A i \in 1..Len(CoreIds) :
              /\ HasIngredient(ingredients, CoreIds[i])
              /\ get_ingredient(RequestStrings[i]) = <<IngredientAt(ingredients, CoreIds[i])>>
    /\ (PassedSchema /\ Unresolved(RequestStrings) = {}) =>
         (call.ret.status = 200 /\ call.core # <<>>)

\* a check of three strings, the second not in the catalog, and a build
\* whose second product holds a resolved string before the unresolved one
C25_Witness ==
  \/ /\ call.op = "POST /ingredients/check"
     /\ Len(call.args[1]) = 3
     /\ Unresolved(call.args[1]) = {2}
     /\ call.ret.status = 400
     /\ call.core = <<>>
  \/ /\ call.op = "POST /routines/build"
     /\ Len(call.args[1]) = 2
     /\ Unresolved(call.args[1][1].ingredients) = {}
     /\ Unresolved(call.args[1][2].ingredients) = {2}
     /\ call.ret.status = 400
     /\ call.core = <<>>

(***************************************************************************)
(* C26.  check_compatibility reports every recorded interaction between    *)
(* two resolved entries of its input in exactly one of conflicts,          *)
(* cautions, synergies and wait_times, whatever the kind of the record:    *)
(* the four lists together hold one entry for each pair of positions of    *)
(* the resolved input that has a record, and a pair whose record is of     *)
(* kind INCREASES_SENSITIVITY is among them.                               *)
(***************************************************************************)
\* the pairs of positions the code visits that have a record on their edge
RecordedPairs(ids) ==
  { pair \in (1..Len(ids)) \X (1..Len(ids)) :
      /\ pair[1] < pair[2]
      /\ get_interaction(ids[pair[1]], ids[pair[2]]) # <<>> }

ReportedEntries(report) ==
  Len(report.conflicts) + Len(report.cautions) + Len(report.synergies)
    + Len(report.wait_times)

C26_EveryRecordReported ==
  call.op = "check_compatibility" =>
    ReportedEntries(call.ret) = Cardinality(RecordedPairs(NormalizeIds(call.args[1])))

(***************************************************************************)
(* C27.  get_interaction and check_compatibility take an identifier for    *)
(* the ingredient get_ingredient returns for it: get_interaction returns   *)
(* the record on the edge between the ingredients its two arguments        *)
(* denote, and every entry of a check_compatibility report names two       *)
(* ingredients that get_ingredient returns for strings of the input; also  *)
(* when a string is the id of one ingredient and an alias of another.      *)
(***************************************************************************)
\* the graph node a string denotes: the id of the ingredient get_ingredient
\* returns for it, the string itself when there is none
Denoted(s) ==
  IF get_ingredient(s) # <<>> THEN get_ingredient(s)[1].id ELSE s

\* the display names of the ingredients get_ingredient returns for a list
DenotedNames(strings) ==
  { get_ingredient(strings[i])[1].name :
      i \in {k \in 1..Len(strings) : get_ingredient(strings[k]) # <<>>} }

ReportNames(report) ==
  UNION { {entry.ingredient_a, entry.ingredient_b} :
            entry \in Range(report.conflicts) \cup Range(report.cautions)
                        \cup Range(report.synergies) \cup Range(report.wait_times) }

C27_SameIngredientInEveryLookup ==
  /\ call.op = "get_interaction" =>
       call.ret = (IF nx_has_edge(graph, Denoted(call.args[1]), Denoted(call.args[2]))
                   THEN <<nx_edge_data(graph, Denoted(call.args[1]),
                                       Denoted(call.args[2])).interaction>>
                   ELSE <<>>)
  /\ call.op = "check_compatibility" =>
       ReportNames(call.ret) \subseteq DenotedNames(call.args[1])

(***************************************************************************)
(* C28.  Every id _extract_ingredients returns for a question is the id of *)
(* an ingredient of the knowledge graph: get_ingredient resolves it to the *)
(* entry with that id.                                                     *)
(***************************************************************************)
C28_ExtractedIdsAreInCatalog ==
  call.op = "ask" =>
    \A i \in 1..Len(call.ingredients) :
      /\ get_ingredient(call.ingredients[i]) # <<>>
      /\ get_ingredient(call.ingredients[i])[1].id = call.ingredients[i]

(***************************************************************************)
(* C29.  In the knowledge context of a question, the line 'No known        *)
(* interactions - generally safe to use together' of a pair comes right    *)
(* after the pair's heading and an explanation that reports nothing: the   *)
(* pair has no record and no pH conflict.  It never comes after a timing,  *)
(* deactivation or pH-conflict explanation of the pair.                    *)
(***************************************************************************)
NoKnownLine == "No known interactions - generally safe to use together"

\* what explain_interaction says of a pair it has nothing to report on
NothingToReport ==
  { "No known interaction. Generally safe to use together.",
    "One or both ingredients not found in database." }

C29_SafeLineOnlyAfterNothingToReport ==
  call.op = "ask" =>
    \A k \in 1..Len(call.context) :
      call.context[k].tag = NoKnownLine =>
        /\ k > 2
        /\ call.context[k - 1].tag \in NothingToReport
        /\ call.context[k - 2].tag = "### pair"

(***************************************************************************)
(* C30.  In a 200 response of POST /ingredients/check or POST              *)
(* /routines/build every entry's interaction_type is the kind of the list  *)
(* it is in: CONFLICTS or DEACTIVATES in conflicts, SYNERGIZES in          *)
(* synergies, CAUTION in cautions.                                         *)
(***************************************************************************)
TypesIn(bucket) == {bucket[i].interaction_type : i \in 1..Len(bucket)}

C30_TypeMatchesList ==
  (call.op \in {"POST /ingredients/check", "POST /routines/build"}
     /\ call.ret.status = 200) =>
    /\ TypesIn(call.ret.body[1].conflicts) \subseteq {"CONFLICTS", "DEACTIVATES"}
    /\ TypesIn(call.ret.body[1].synergies) \subseteq {"SYNERGIZES"}
    /\ TypesIn(call.ret.body[1].cautions) \subseteq {"CAUTION"}
====
